---- MODULE Spec2Model ----
(***************************************************************************)
(* Model of the inference orchestration core of whisper-openai-server:     *)
(*   - the context pool and its round-robin selection                      *)
(*     (src/backend/whisper_rs.rs, WhisperRsBackend::transcribe),          *)
(*   - the multi-pass decode orchestrator (run_whisper_rs),                *)
(*   - the cross-process model acquisition protocol (src/model_store.rs),  *)
(*   - the start of the process around them (src/main.rs),                 *)
(*   - the pool size read from the configuration (src/config.rs) and the   *)
(*     construction of the pool (WhisperRsBackend::new, build_contexts),   *)
(*   - the HTTP handler in front of the backend (src/api.rs).              *)
(*                                                                         *)
(* Strings are sequences of one-character strings, so that trimming,       *)
(* whitespace splitting and byte length are computed, not assumed.         *)
(* Option<T> is a sequence of length <= 1: <<>> is None, <<x>> is Some(x). *)
(***************************************************************************)
EXTENDS Integers, Sequences, FiniteSets, TLC

VARIABLES
    \* ---- pool and requests (whisper_rs.rs) ----
    next_context_idx,   \* WhisperRsBackend.next_context_idx (AtomicUsize)
    holder,             \* per context: the request holding its Mutex, 0 if free
    picks,              \* history: the indices handed out, in fetch_add order
    engine,             \* environment: what the engine may return on the audio at hand
    req,                \* per request: the TranscribeRequest
    pc,                 \* per request: position in transcribe / run_whisper_rs
    ctx,                \* per request: context_idx chosen, -1 before the choice
    count,              \* per request: local `count`
    segments,           \* per request: local `segments`
    state_lang,         \* per request: language id held by the WhisperState
    log,                \* per request: history of the decode passes executed
    result,             \* per request: value returned by run_whisper_rs
    arrivals,           \* history: the requests, in fetch_add order
    caller,             \* per request: the task awaiting the JoinHandle ("waiting"
                        \* until it takes the result, "gone" once it gave up)
    poisoned,           \* per context: the poison flag of its Mutex
    \* ---- model acquisition (model_store.rs) ----
    fs,                 \* the model directory: file name -> file, or Absent
    apc,                \* per process: position in ensure_model_ready
    target,             \* per process: target_path
    auto_download,      \* per process: cfg.whisper_auto_download
    polls,              \* per process: lock polls slept so far (elapsed time)
    body,               \* per process: length of the response body being streamed
    gets,               \* per process: GET requests issued
    outcome,            \* per process: how ensure_model_ready returned
    status,             \* per process: status of the response to its GET
    prev,               \* per process: how its previous call returned
    boot,               \* position of main in the process watched (process 1;
                        \* the others are other instances on the same directory)
    \* ---- configuration and pool construction (config.rs, whisper_rs.rs) ----
    cfg,                \* the AppConfig handed to WhisperRsBackend::new
    bpc,                \* position of the start-up: configuration, build_contexts
    contexts,           \* the Vec of build_contexts, then the field of the backend
    attempts,           \* history: the calls of build_contexts, with their error
    build_result,       \* what WhisperRsBackend::new returned
    \* ---- the HTTP handler in front of the backend (api.rs) ----
    form,               \* per request: the headers and multipart fields received
    response            \* per request: status of the response sent before the
                        \* backend was called, "none" otherwise

poolVars == <<next_context_idx, holder, picks, engine, req, pc, ctx, count,
              segments, state_lang, log, result, arrivals, caller, poisoned>>
acqVars == <<fs, apc, target, auto_download, polls, body, gets, outcome,
             status, prev, boot>>
buildVars == <<cfg, bpc, contexts, attempts, build_result>>
apiVars == <<form, response>>
vars == <<next_context_idx, holder, picks, engine, req, pc, ctx, count,
          segments, state_lang, log, result, arrivals, caller, poisoned,
          fs, apc, target, auto_download, polls, body, gets, outcome,
          status, prev, boot,
          cfg, bpc, contexts, attempts, build_result,
          form, response>>

(***************************************************************************)
(* Bounds of the model.                                                    *)
(***************************************************************************)
\* concurrent requests
NumReqs == 3
\* contexts in the pool (cfg.whisper_parallelism)
PoolSize == 2
\* engine segments returned by one decode pass
MaxSegs == 2
\* the same, for the runs checked under fairness
MaxSegsBrief == 1
\* width of the selection counter in bits (usize is 64 bits wide)
WordBits == 4
\* processes running model acquisition
NumProcs == 2
\* polls after which LOCK_TIMEOUT has elapsed (120 s / 250 ms in the source)
MaxPolls == 1
\* bytes in a response body
MaxBody == 2

Reqs == 1..NumReqs
Contexts == 0..(PoolSize - 1)
Procs == 1..NumProcs

(***************************************************************************)
(* Text: str::trim, str::split_whitespace, join, str::len.                 *)
(***************************************************************************)
IsWhitespace(c) == c = " "

\* UTF-8 length of one character ("U+00E9" stands for the two-byte e-acute)
Utf8Len(c) == IF c = "U+00E9" THEN 2 ELSE 1

RECURSIVE TrimStart(_)
TrimStart(s) ==
    IF s # <<>> /\ IsWhitespace(Head(s)) THEN TrimStart(Tail(s)) ELSE s

RECURSIVE TrimEnd(_)
TrimEnd(s) ==
    IF s # <<>> /\ IsWhitespace(s[Len(s)])
    THEN TrimEnd(SubSeq(s, 1, Len(s) - 1))
    ELSE s

Trim(s) == TrimEnd(TrimStart(s))

\* str::split_whitespace: the maximal runs of non-whitespace characters
RECURSIVE SplitFrom(_, _, _)
SplitFrom(s, cur, acc) ==
    IF s = <<>>
    THEN IF cur = <<>> THEN acc ELSE Append(acc, cur)
    ELSE IF IsWhitespace(Head(s))
         THEN SplitFrom(Tail(s), <<>>, IF cur = <<>> THEN acc ELSE Append(acc, cur))
         ELSE SplitFrom(Tail(s), Append(cur, Head(s)), acc)

SplitWhitespace(s) == SplitFrom(s, <<>>, <<>>)

\* [&str]::join(" ")
RECURSIVE JoinSpace(_)
JoinSpace(words) ==
    IF words = <<>> THEN <<>>
    ELSE IF Len(words) = 1 THEN words[1]
    ELSE words[1] \o <<" ">> \o JoinSpace(Tail(words))

\* str::len: length in bytes
RECURSIVE ByteLen(_)
ByteLen(s) == IF s = <<>> THEN 0 ELSE Utf8Len(Head(s)) + ByteLen(Tail(s))

Contains(s, c) == \E i \in 1..Len(s) : s[i] = c

\* faulty variant: the text is passed through as it is
normalize_text_Raw(raw) == raw

normalize_text(raw) == JoinSpace(SplitWhitespace(raw))

\* segments.iter().map(|seg| seg.text.as_str()).collect::<Vec<_>>().join(" ")
JoinedText(segs) == JoinSpace([i \in 1..Len(segs) |-> segs[i].text])

(***************************************************************************)
(* Decode orchestrator: helpers of run_whisper_rs.                         *)
(***************************************************************************)
\* language the engine decodes in when FullParams leaves it unset
DefaultLanguage == <<"e", "n">>

\* an engine segment: kind "text" (its text can be read), "none" (get_segment
\* returns None) or "bad" (to_str_lossy returns Err)
RawText(t) == [kind |-> "text", text |-> t]
RawNone == [kind |-> "none", text |-> <<>>]
RawBad == [kind |-> "bad", text |-> <<>>]

\* extract_segments fails when the text of a segment cannot be read
extract_fails(raw) == \E i \in 1..Len(raw) : raw[i].kind = "bad"

\* faulty variant: segments whose text is blank are kept, untrimmed
RECURSIVE ExtractFrom_KeepsBlank(_)
ExtractFrom_KeepsBlank(raw) ==
    IF raw = <<>> THEN <<>>
    ELSE LET seg == Head(raw)
             rest == ExtractFrom_KeepsBlank(Tail(raw))
         IN  IF seg.kind = "none" THEN rest
             ELSE <<[text |-> seg.text]>> \o rest

\* the loop of extract_segments: segments the engine does not return and
\* segments whose trimmed text is empty are skipped, the others pushed in order
RECURSIVE ExtractFrom(_)
ExtractFrom(raw) ==
    IF raw = <<>> THEN <<>>
    ELSE LET seg == Head(raw)
             rest == ExtractFrom(Tail(raw))
         IN  IF seg.kind = "none" THEN rest
             ELSE IF Trim(seg.text) = <<>> THEN rest
             ELSE <<[text |-> Trim(seg.text)]>> \o rest

\* (count, segments): count is full_n_segments(), segments the non-blank ones
extract_segments(raw) == [count |-> Len(raw), segments |-> ExtractFrom(raw)]

is_parenthesized_event(text) ==
    LET trimmed == Trim(text)
    IN  /\ trimmed # <<>>
        /\ Head(trimmed) = "("
        /\ trimmed[Len(trimmed)] = ")"
        /\ ~Contains(trimmed, " ")

\* faulty variant: the check without its non-empty test
looks_like_non_speech_only_Vacuous(segs) ==
    \A i \in 1..Len(segs) : is_parenthesized_event(segs[i].text)

looks_like_non_speech_only(segs) ==
    /\ segs # <<>>
    /\ \A i \in 1..Len(segs) : is_parenthesized_event(segs[i].text)

transcript_score(segs) == ByteLen(normalize_text(JoinedText(segs)))

\* faulty variant: a tie lets the candidate in
AggressiveWins_OnTie(candidate, current) ==
    transcript_score(candidate) >= transcript_score(current)

\* the comparison that lets the aggressive candidate replace the current best
AggressiveWins(candidate, current) ==
    transcript_score(candidate) > transcript_score(current)

\* language policy shared by pass 1 and pass 3
LanguagePolicy(request) ==
    IF request.language # <<>>
    THEN LET trimmed == Trim(request.language[1])
         IN  [language |-> IF trimmed # <<>> THEN <<trimmed>> ELSE <<>>,
              detect_language |-> FALSE]
    ELSE [language |-> <<>>, detect_language |-> TRUE]

\* the prompt handed to set_initial_prompt: trimmed, none when nothing is left
InitialPrompt(request) ==
    IF request.prompt # <<>> /\ Trim(request.prompt[1]) # <<>>
    THEN <<Trim(request.prompt[1])>>
    ELSE <<>>

\* set_translate(matches!(req.task, TaskKind::Translate))
Translate(request) == request.task = "translate"

PrimaryParams(request) ==
    [language |-> LanguagePolicy(request).language,
     detect_language |-> LanguagePolicy(request).detect_language,
     initial_prompt |-> InitialPrompt(request),
     temperature |-> request.temperature,
     translate |-> Translate(request),
     no_speech_thold_max |-> FALSE,
     suppress_blank |-> TRUE]

FallbackParams(request) ==
    [language |-> << <<"e", "n">> >>,
     detect_language |-> FALSE,
     initial_prompt |-> InitialPrompt(request),
     temperature |-> request.temperature,
     translate |-> Translate(request),
     no_speech_thold_max |-> FALSE,
     suppress_blank |-> TRUE]

\* faulty variant: the aggressive pass keeps the language pinned by the fallback
AggressiveParams_Pinned(request) ==
    [FallbackParams(request) EXCEPT !.no_speech_thold_max = TRUE,
                                    !.suppress_blank = FALSE]

AggressiveParams(request) ==
    [language |-> LanguagePolicy(request).language,
     detect_language |-> LanguagePolicy(request).detect_language,
     initial_prompt |-> InitialPrompt(request),
     temperature |-> request.temperature,
     translate |-> Translate(request),
     no_speech_thold_max |-> TRUE,
     suppress_blank |-> FALSE]

SeqsUpTo(S, n) == UNION {[1..k -> S] : k \in 0..n}

TextEvent == <<"(", "a", ")">>
TextEventWide == <<" ", "(", "U+00E9", ")">>
TextWords == <<"a", " ", " ", "b">>
TextEventSpaced == <<"(", "a", " ", "b", ")">>
TextBlank == <<" ">>
TextWide == <<"U+00E9", "U+00E9">>

RawItems ==
    {RawNone, RawBad, RawText(TextBlank), RawText(TextEvent),
     RawText(TextEventWide), RawText(TextWords), RawText(TextEventSpaced)}

\* every sequence of engine segments within the bound
AnyOutputs == SeqsUpTo(RawItems, MaxSegs)
BriefOutputs == SeqsUpTo(RawItems, MaxSegsBrief)

\* the segments a decode pass may return on the audio at hand:
\*   "any":         anything
\*   "brief":       anything, in fewer segments
\*   "event_audio": nothing when the language is auto-detected, one event
\*                  marker when it is pinned
\*   "wide_audio":  as "event_audio", but two letters of two bytes each
\*                  once the no-speech suppression is off
EngineSegments(params) ==
    IF engine = "any" THEN AnyOutputs
    ELSE IF engine = "brief" THEN BriefOutputs
    ELSE IF engine = "wide_audio"
    THEN IF params.no_speech_thold_max
         THEN {<<RawText(TextWide)>>}
         ELSE IF params.detect_language THEN {<<>>}
         ELSE {<<RawText(TextEvent)>>}
    ELSE IF params.detect_language THEN {<<>>}
    ELSE {<<RawText(TextEvent)>>}

\* the languages auto-detection may report on the audio at hand
EngineLanguages ==
    IF engine \in {"any", "brief"}
    THEN {<<"e", "n">>, <<"f", "r">>}
    ELSE {<<"e", "n">>}

\* state.full(params, audio): an execution error, or engine segments and the
\* language the state then holds (detected, pinned, or the engine's default)
EngineFull(params) ==
    {[ok |-> FALSE, raw |-> <<>>, lang |-> <<>>]}
    \cup {[ok |-> TRUE, raw |-> x, lang |-> l] :
            x \in EngineSegments(params),
            l \in IF params.detect_language THEN EngineLanguages
                  ELSE IF params.language # <<>> THEN {params.language[1]}
                  ELSE {DefaultLanguage}}

\* where run_whisper_rs goes after the fallback block: the non-speech check
AfterFallback(segs) ==
    IF looks_like_non_speech_only(segs) THEN "pass3" ELSE "finalize"

\* faulty variant: the empty auto-detect fallback is skipped
AfterPrimary_NoFallback(n, segs, request) == AfterFallback(segs)

\* faulty variant: without the empty fallback the non-speech check is skipped
AfterPrimary_SkipsCheck(n, segs, request) ==
    IF n = 0 /\ request.language = <<>> THEN "pass2" ELSE "finalize"

\* where run_whisper_rs goes after the primary pass
AfterPrimary(n, segs, request) ==
    IF n = 0 /\ request.language = <<>> THEN "pass2" ELSE AfterFallback(segs)

\* faulty variant: the aggressive pass is tried again
AfterAggressive_Again == "pass3"

\* where run_whisper_rs goes after the aggressive pass
AfterAggressive == "finalize"

PassStatus(out) ==
    IF ~out.ok THEN "engine_error"
    ELSE IF extract_fails(out.raw) THEN "text_error"
    ELSE "ok"

\* one call of state.full as the history keeps it: the parameters and the
\* samples it was given, what the engine left, the segments held before it
LogEntry(n, params, audio, out, held) ==
    [pass |-> n, status |-> PassStatus(out), params |-> params,
     audio |-> audio, raw |-> out.raw, lang |-> out.lang, held |-> held]

NoResult == [ok |-> FALSE, text |-> <<>>, language |-> <<>>, segments |-> <<>>]

(***************************************************************************)
(* Pool and orchestrator: the steps of transcribe and run_whisper_rs.      *)
(***************************************************************************)
\* faulty variant: an increment that is lost
FetchAdd_Lost(c) == c

\* AtomicUsize::fetch_add(1): the stored value wraps at the word size
FetchAdd(c) == (c + 1) % (2 ^ WordBits)

\* the index computed from the value fetch_add returned
ContextIdx(c) == c % Len(contexts)

\* faulty variant: a lock that lets a second thread in
CanLock_NoExclusion(h) == TRUE

\* Mutex::lock returns once no other thread holds the mutex
CanLock(h) == holder[h] = 0

\* faulty variant: the guard outlives the call and the Mutex stays locked
Unlock_Leaked(r) == holder

\* the guard is dropped when run_whisper_rs returns
Unlock(r) == [holder EXCEPT ![ctx[r]] = 0]

\* the positions whose step runs on the request task (the body of transcribe
\* up to task::spawn_blocking) and those whose step runs on the blocking
\* worker (the closure, run_whisper_rs)
OnTask == {"idle"}

OnWorker == {"dispatched", "locked", "pass1", "pass2", "pass3", "finalize"}

\* faulty variant: the context is locked on the request task, before the dispatch
spawn_blocking_LockedFirst(r) == [holder EXCEPT ![ContextIdx(next_context_idx)] = r]

\* task::spawn_blocking: the closure is queued for a blocking worker; the
\* request task itself has locked nothing when it starts to await the JoinHandle
spawn_blocking(r) == holder

\* the positions of run_whisper_rs in which context_guard is alive
HoldsGuard(r) == pc[r] \in {"locked", "pass1", "pass2", "pass3", "finalize"}

\* transcribe: pick the context, hand run_whisper_rs to a blocking worker
\* (the requests are numbered in the order of their fetch_add calls)
Transcribe(r) ==
    /\ bpc = "built"
    /\ pc[r] = "idle"
    /\ \A q \in Reqs : q < r => pc[q] # "idle"
    /\ ctx' = [ctx EXCEPT ![r] = ContextIdx(next_context_idx)]
    /\ picks' = Append(picks, ContextIdx(next_context_idx))
    /\ next_context_idx' = FetchAdd(next_context_idx)
    /\ arrivals' = Append(arrivals, r)
    /\ pc' = [pc EXCEPT ![r] = "dispatched"]
    /\ holder' = spawn_blocking(r)
    /\ UNCHANGED <<engine, req, count, segments, state_lang, log, result>>
    /\ UNCHANGED <<caller, poisoned>>
    /\ UNCHANGED <<acqVars, buildVars, apiVars>>

\* run_whisper_rs: context.lock()
LockContext(r) ==
    /\ pc[r] = "dispatched"
    /\ CanLock(ctx[r])
    /\ ~poisoned[ctx[r]]
    /\ holder' = [holder EXCEPT ![ctx[r]] = r]
    /\ pc' = [pc EXCEPT ![r] = "locked"]
    /\ UNCHANGED <<arrivals, caller, poisoned>>
    /\ UNCHANGED <<next_context_idx, picks, engine, req, ctx, count, segments,
                   state_lang, log, result>>
    /\ UNCHANGED <<acqVars, buildVars, apiVars>>

\* a decode pass that succeeded: the locals it leaves and the next position
PassDone(r, entry, n, segs, next) ==
    /\ count' = [count EXCEPT ![r] = n]
    /\ segments' = [segments EXCEPT ![r] = segs]
    /\ state_lang' = [state_lang EXCEPT ![r] = <<entry.lang>>]
    /\ log' = [log EXCEPT ![r] = Append(@, entry)]
    /\ pc' = [pc EXCEPT ![r] = next]
    /\ UNCHANGED <<next_context_idx, holder, picks, engine, req, ctx, result>>
    /\ UNCHANGED <<arrivals, caller, poisoned>>
    /\ UNCHANGED <<acqVars, buildVars, apiVars>>

\* an error return (`?`): the guard is dropped, Err goes back to the caller
ReturnErr(r, entry) ==
    /\ pc' = [pc EXCEPT ![r] = "failed"]
    /\ holder' = Unlock(r)
    /\ log' = [log EXCEPT ![r] = IF entry = <<>> THEN @ ELSE Append(@, entry[1])]
    /\ result' = [result EXCEPT ![r] = NoResult]
    /\ UNCHANGED <<next_context_idx, picks, engine, req, ctx, count, segments,
                   state_lang>>
    /\ UNCHANGED <<arrivals, caller, poisoned>>
    /\ UNCHANGED <<acqVars, buildVars, apiVars>>

\* faulty variant: the error is swallowed and the result held so far is returned
OnPassError_Masked(r, entry) ==
    PassDone(r, entry, count[r], segments[r], "finalize")

\* a decode pass that ended in an error
OnPassError(r, entry) == ReturnErr(r, <<entry>>)

\* run_whisper_rs: context_guard.create_state()
CreateStateOk(r) ==
    /\ pc[r] = "locked"
    /\ pc' = [pc EXCEPT ![r] = "pass1"]
    /\ UNCHANGED <<next_context_idx, holder, picks, engine, req, ctx, count,
                   segments, state_lang, log, result>>
    /\ UNCHANGED <<arrivals, caller, poisoned>>
    /\ UNCHANGED <<acqVars, buildVars, apiVars>>

CreateStateErr(r) ==
    /\ pc[r] = "locked"
    /\ ReturnErr(r, <<>>)

\* pass 1: the primary decode
Pass1(r) ==
    /\ pc[r] = "pass1"
    /\ \E out \in EngineFull(PrimaryParams(req[r])) :
         LET entry == LogEntry(1, PrimaryParams(req[r]), req[r].audio_16khz_mono_f32, out,
                              segments[r])
             ext == extract_segments(out.raw)
         IN  IF entry.status # "ok"
             THEN OnPassError(r, entry)
             ELSE PassDone(r, entry, ext.count, ext.segments,
                           AfterPrimary(ext.count, ext.segments, req[r]))

\* pass 2: language pinned to English after an empty auto-detect pass
Pass2(r) ==
    /\ pc[r] = "pass2"
    /\ \E out \in EngineFull(FallbackParams(req[r])) :
         LET entry == LogEntry(2, FallbackParams(req[r]), req[r].audio_16khz_mono_f32, out,
                              segments[r])
             ext == extract_segments(out.raw)
             replaced == ext.count > 0
             n == IF replaced THEN ext.count ELSE count[r]
             segs == IF replaced THEN ext.segments ELSE segments[r]
         IN  IF entry.status # "ok"
             THEN OnPassError(r, entry)
             ELSE PassDone(r, entry, n, segs, AfterFallback(segs))

\* pass 3: the aggressive decode after a non-speech-only transcript
Pass3(r) ==
    /\ pc[r] = "pass3"
    /\ \E out \in EngineFull(AggressiveParams(req[r])) :
         LET entry == LogEntry(3, AggressiveParams(req[r]), req[r].audio_16khz_mono_f32, out,
                              segments[r])
             ext == extract_segments(out.raw)
             replaced == AggressiveWins(ext.segments, segments[r])
             n == IF replaced THEN ext.count ELSE count[r]
             segs == IF replaced THEN ext.segments ELSE segments[r]
         IN  IF entry.status # "ok"
             THEN OnPassError(r, entry)
             ELSE PassDone(r, entry, n, segs, AfterAggressive)

\* faulty variant: the language the decode used is reported in every case
ReportedLanguage_Used(request, held) == held

\* detected_language: the caller's language as given, else the language id
\* held by the state after the last state.full
ReportedLanguage(request, held) ==
    IF request.language # <<>> THEN request.language ELSE held

\* finalization: the text, the language, Ok(TranscriptResult); the guard is dropped
Finalize(r) ==
    /\ pc[r] = "finalize"
    /\ result' = [result EXCEPT ![r] =
                    [ok |-> TRUE,
                     text |-> normalize_text(JoinedText(segments[r])),
                     language |-> ReportedLanguage(req[r], state_lang[r]),
                     segments |-> segments[r]]]
    /\ holder' = Unlock(r)
    /\ pc' = [pc EXCEPT ![r] = "done"]
    /\ UNCHANGED <<next_context_idx, picks, engine, req, ctx, count, segments,
                   state_lang, log>>
    /\ UNCHANGED <<arrivals, caller, poisoned>>
    /\ UNCHANGED <<acqVars, buildVars, apiVars>>

\* faulty variant: giving up stops the worker where it is
WorkerAfterAbandon_Stopped(r) == [pc EXCEPT ![r] = "failed"]

\* dropping the JoinHandle detaches the blocking task: the worker goes on
WorkerAfterAbandon(r) == pc

\* the caller drops the future of transcribe while it awaits the JoinHandle
\* of a worker that has not returned yet
Abandon(r) ==
    /\ caller[r] = "waiting"
    /\ pc[r] \notin {"absent", "idle", "done", "failed"}
    /\ caller' = [caller EXCEPT ![r] = "gone"]
    /\ pc' = WorkerAfterAbandon(r)
    /\ UNCHANGED <<next_context_idx, holder, picks, engine, req, ctx, count,
                   segments, state_lang, log, result, arrivals, poisoned>>
    /\ UNCHANGED <<acqVars, buildVars, apiVars>>

\* run_whisper_rs: context.lock() on a Mutex whose holder panicked returns
\* Err(PoisonError), mapped to the backend error; its guard is dropped
LockPoisoned(r) ==
    /\ pc[r] = "dispatched"
    /\ CanLock(ctx[r])
    /\ poisoned[ctx[r]]
    /\ ReturnErr(r, <<>>)

\* the worker panics while it holds the guard: unwinding drops the guard,
\* which marks the Mutex poisoned and unlocks it; the JoinHandle yields a
\* JoinError, which transcribe maps to the backend error
Panic(r) ==
    /\ HoldsGuard(r)
    /\ poisoned' = [poisoned EXCEPT ![ctx[r]] = TRUE]
    /\ holder' = Unlock(r)
    /\ pc' = [pc EXCEPT ![r] = "failed"]
    /\ result' = [result EXCEPT ![r] = NoResult]
    /\ UNCHANGED <<next_context_idx, picks, engine, req, ctx, count, segments,
                   state_lang, log, arrivals, caller>>
    /\ UNCHANGED <<acqVars, buildVars, apiVars>>

RequestStep(r) ==
    \/ Transcribe(r)
    \/ LockContext(r)
    \/ CreateStateOk(r)
    \/ CreateStateErr(r)
    \/ Pass1(r)
    \/ Pass2(r)
    \/ Pass3(r)
    \/ Finalize(r)

(***************************************************************************)
(* Model acquisition: the model directory and the steps of                 *)
(* ensure_model_ready. A file name is the sequence of its dot-separated    *)
(* components: <<"m", "bin">> is m.bin.                                    *)
(***************************************************************************)
Absent == [kind |-> "absent", len |-> 0, total |-> 0, by |-> 0]

\* a model file holding len of the total bytes of a body, written by process
\* `by` (0: it was there before any process started)
DataFile(n, t, p) == [kind |-> "data", len |-> n, total |-> t, by |-> p]

\* the lock file, holding the line "pid=<by>"
LockFile(p) == [kind |-> "lock", len |-> 1, total |-> 1, by |-> p]

\* Path::with_extension: the last component is replaced, or one is added
with_extension(name, ext) ==
    IF Len(name) >= 2
    THEN SubSeq(name, 1, Len(name) - 1) \o <<ext>>
    ELSE name \o <<ext>>

\* "{file_name}.lock" beside the target
lock_path_for(name) == name \o <<"lock">>

tmp_path_for(name) == with_extension(name, "part")

\* faulty variant: the file is never found
model_file_exists_Never(path) == FALSE

\* fs::metadata(path): a regular file of non-zero length
model_file_exists(path) == fs[path].kind # "absent" /\ fs[path].len > 0

\* faulty variant: create instead of create_new
CreateNewSucceeds_Always(path) == TRUE

\* faulty variant: the lock file of a holder that died is taken over
CreateNewSucceeds_BreaksStale(path) ==
    \/ fs[path].kind = "absent"
    \/ /\ fs[path].kind = "lock"
       /\ apc[fs[path].by] = "killed"

\* OpenOptions::create_new succeeds only when nothing has the name
CreateNewSucceeds(path) == fs[path].kind = "absent"

\* faulty variant: a guard that leaves the file behind
LockRemoved_Kept(p) == fs

\* LockGuard::drop: fs::remove_file(&self.path)
LockRemoved(p) == [fs EXCEPT ![lock_path_for(target[p])] = Absent]

\* one step of process p: new position, new directory, how it returned
AcqStep(p, next, dir, how) ==
    /\ apc' = [apc EXCEPT ![p] = next]
    /\ fs' = dir
    /\ outcome' = [outcome EXCEPT ![p] = how]
    /\ UNCHANGED <<target, auto_download, prev, boot>>
    /\ UNCHANGED <<poolVars, buildVars, apiVars>>

\* faulty variant: the call goes on to the download although it is disabled
AfterMissingConfigured_GoesOn(enabled) == "check_target"

\* `if !cfg.whisper_auto_download { return Err(..) }`
AfterMissingConfigured(enabled) == IF enabled THEN "check_target" ELSE "ended"

\* the configured path is there (Ok), or downloading is disabled (Err)
CheckConfigured(p) ==
    /\ apc[p] = "start"
    /\ IF model_file_exists(target[p])
       THEN AcqStep(p, "ended", fs, "ok_configured")
       ELSE AcqStep(p, AfterMissingConfigured(auto_download[p]), fs,
                    IF auto_download[p] THEN outcome[p] ELSE "err_no_download")
    /\ UNCHANGED <<polls, body, gets, status>>

\* the target is there: adopt it
CheckTarget(p) ==
    /\ apc[p] = "check_target"
    /\ IF model_file_exists(target[p])
       THEN AcqStep(p, "ended", fs, "ok_adopted")
       ELSE AcqStep(p, "mkdir", fs, outcome[p])
    /\ UNCHANGED <<polls, body, gets, status>>

\* fs::create_dir_all(parent)
CreateDirOk(p) ==
    /\ apc[p] = "mkdir"
    /\ AcqStep(p, "acquire", fs, outcome[p])
    /\ UNCHANGED <<polls, body, gets, status>>

CreateDirErr(p) ==
    /\ apc[p] = "mkdir"
    /\ AcqStep(p, "ended", fs, "err_mkdir")
    /\ UNCHANGED <<polls, body, gets, status>>

\* acquire_lock: create_new succeeded, the pid is written
LockCreated(p) ==
    /\ apc[p] = "acquire"
    /\ CreateNewSucceeds(lock_path_for(target[p]))
    /\ AcqStep(p, "recheck",
               [fs EXCEPT ![lock_path_for(target[p])] = LockFile(p)], outcome[p])
    /\ UNCHANGED <<polls, body, gets, status>>

\* acquire_lock: AlreadyExists before the timeout: sleep one poll interval
LockBusy(p) ==
    /\ apc[p] = "acquire"
    /\ ~CreateNewSucceeds(lock_path_for(target[p]))
    /\ polls[p] < MaxPolls
    /\ polls' = [polls EXCEPT ![p] = @ + 1]
    /\ AcqStep(p, "acquire", fs, outcome[p])
    /\ UNCHANGED <<body, gets, status>>

\* faulty variant: after the timeout the process goes on as if it held the lock
AfterLockTimeout_GoesOn == "recheck"

\* acquire_lock returns Err and ensure_model_ready returns it (`?`)
AfterLockTimeout == "ended"

\* acquire_lock: AlreadyExists once LOCK_TIMEOUT has elapsed
LockTimedOut(p) ==
    /\ apc[p] = "acquire"
    /\ ~CreateNewSucceeds(lock_path_for(target[p]))
    /\ polls[p] >= MaxPolls
    /\ AcqStep(p, AfterLockTimeout, fs, "err_lock_timeout")
    /\ UNCHANGED <<polls, body, gets, status>>

\* the double check under the lock
Recheck(p) ==
    /\ apc[p] = "recheck"
    /\ IF model_file_exists(target[p])
       THEN AcqStep(p, "release", fs, "ok_adopted_locked")
       ELSE AcqStep(p, "download", fs, outcome[p])
    /\ UNCHANGED <<polls, body, gets, status>>

\* what request.send() may give: no response at all, or one with a status
NoResponse == "none"
Statuses == {"200", "401", "403", "404", "500"}
IsSuccess(st) == st = "200"

\* the error returned for a request that failed or a status that is no success
StatusOutcome(st) ==
    IF st = NoResponse THEN "err_network"
    ELSE IF st \in {"401", "403"} THEN "err_auth"
    ELSE IF st = "404" THEN "err_not_found"
    ELSE "err_status"

\* faulty variant: the request is sent again after a status that is no success
AfterBadStatus_Retry(st) == IF st = NoResponse THEN "release" ELSE "download"

\* where ensure_model_ready goes on an error of download_model_to_path: it
\* returns (`?`), which drops the guard
AfterBadStatus(st) == "release"

\* download_model_to_path: the GET is sent and a success status comes back
SendOk(p) ==
    /\ apc[p] = "download"
    /\ gets' = [gets EXCEPT ![p] = @ + 1]
    /\ \E st \in {x \in Statuses : IsSuccess(x)} :
         status' = [status EXCEPT ![p] = st]
    /\ \E n \in 0..MaxBody : body' = [body EXCEPT ![p] = n]
    /\ AcqStep(p, "create_tmp", fs, outcome[p])
    /\ UNCHANGED polls

\* download_model_to_path: the request fails, or the status is not a success
SendErr(p) ==
    /\ apc[p] = "download"
    /\ gets' = [gets EXCEPT ![p] = @ + 1]
    /\ \E st \in {NoResponse} \cup {x \in Statuses : ~IsSuccess(x)} :
         /\ status' = [status EXCEPT ![p] = st]
         /\ AcqStep(p, AfterBadStatus(st), fs, StatusOutcome(st))
    /\ UNCHANGED <<polls, body>>

\* File::create(&tmp_path): the file is created, or truncated if it is there
CreateTmpOk(p) ==
    /\ apc[p] = "create_tmp"
    /\ AcqStep(p, "copy",
               [fs EXCEPT ![tmp_path_for(target[p])] = DataFile(0, body[p], p)],
               outcome[p])
    /\ UNCHANGED <<polls, body, gets, status>>

CreateTmpErr(p) ==
    /\ apc[p] = "create_tmp"
    /\ AcqStep(p, "release", fs, "err_tmp_create")
    /\ UNCHANGED <<polls, body, gets, status>>

\* std::io::copy: one more byte of the body reaches the temporary file
CopyChunk(p) ==
    /\ apc[p] = "copy"
    /\ fs[tmp_path_for(target[p])].len < body[p]
    /\ AcqStep(p, "copy",
               [fs EXCEPT ![tmp_path_for(target[p])] =
                    DataFile(@.len + 1, body[p], p)],
               outcome[p])
    /\ UNCHANGED <<polls, body, gets, status>>

\* std::io::copy or flush fails: what was written stays in the temporary file
CopyErr(p) ==
    /\ apc[p] = "copy"
    /\ AcqStep(p, "release", fs, "err_write")
    /\ UNCHANGED <<polls, body, gets, status>>

\* faulty variant: the size of the temporary file is not looked at
AfterSizeCheck_Installs(size) == "rename"

\* `if size == 0`: an empty temporary file is removed, any other is renamed
AfterSizeCheck(size) == IF size = 0 THEN "remove_tmp" ELSE "rename"

\* the stream ended and was flushed: the size check
CopyDone(p) ==
    /\ apc[p] = "copy"
    /\ fs[tmp_path_for(target[p])].len = body[p]
    /\ AcqStep(p, AfterSizeCheck(fs[tmp_path_for(target[p])].len), fs,
               outcome[p])
    /\ UNCHANGED <<polls, body, gets, status>>

\* an empty download: fs::remove_file(&tmp_path), then Err
RemoveTmp(p) ==
    /\ apc[p] = "remove_tmp"
    /\ AcqStep(p, "release",
               [fs EXCEPT ![tmp_path_for(target[p])] = Absent], "err_empty")
    /\ UNCHANGED <<polls, body, gets, status>>

\* fs::rename(&tmp_path, target_path)
RenameOk(p) ==
    /\ apc[p] = "rename"
    /\ AcqStep(p, "release",
               [fs EXCEPT ![tmp_path_for(target[p])] = Absent,
                          ![target[p]] = fs[tmp_path_for(target[p])]],
               "ok_downloaded")
    /\ UNCHANGED <<polls, body, gets, status>>

RenameErr(p) ==
    /\ apc[p] = "rename"
    /\ AcqStep(p, "release", fs, "err_rename")
    /\ UNCHANGED <<polls, body, gets, status>>

\* ensure_model_ready returns: _guard goes out of scope
Release(p) ==
    /\ apc[p] = "release"
    /\ AcqStep(p, "ended", LockRemoved(p), outcome[p])
    /\ UNCHANGED <<polls, body, gets, status>>

AcquisitionStep(p) ==
    \/ CheckConfigured(p)
    \/ CheckTarget(p)
    \/ CreateDirOk(p)
    \/ CreateDirErr(p)
    \/ LockCreated(p)
    \/ LockBusy(p)
    \/ LockTimedOut(p)
    \/ Recheck(p)
    \/ SendOk(p)
    \/ SendErr(p)
    \/ CreateTmpOk(p)
    \/ CreateTmpErr(p)
    \/ CopyChunk(p)
    \/ CopyErr(p)
    \/ CopyDone(p)
    \/ RemoveTmp(p)
    \/ RenameOk(p)
    \/ RenameErr(p)
    \/ Release(p)

\* the process is killed while it holds the lock (SIGKILL, abort, power
\* loss): nothing of it runs any more, LockGuard::drop included, and the
\* directory stays as it is
Kill(p) ==
    /\ apc[p] \in {"recheck", "download", "create_tmp", "copy", "remove_tmp",
                   "rename", "release"}
    /\ fs[lock_path_for(target[p])] = LockFile(p)
    /\ AcqStep(p, "killed", fs, outcome[p])
    /\ UNCHANGED <<polls, body, gets, status>>

\* the returns of ensure_model_ready that are Ok(())
IsOk(how) ==
    how \in {"ok_configured", "ok_adopted", "ok_adopted_locked", "ok_downloaded"}

\* ensure_model_ready is called once more with the same cfg after it returned
\* Ok: the locals of the call start afresh, the directory is as the first
\* call and the other processes have left it
CallAgain(p) ==
    /\ apc[p] = "ended"
    /\ IsOk(outcome[p])
    /\ prev[p] = "none"
    /\ prev' = [prev EXCEPT ![p] = outcome[p]]
    /\ apc' = [apc EXCEPT ![p] = "start"]
    /\ outcome' = [outcome EXCEPT ![p] = "none"]
    /\ polls' = [polls EXCEPT ![p] = 0]
    /\ body' = [body EXCEPT ![p] = 0]
    /\ gets' = [gets EXCEPT ![p] = 0]
    /\ status' = [status EXCEPT ![p] = NoResponse]
    /\ UNCHANGED <<fs, target, auto_download, boot>>
    /\ UNCHANGED <<poolVars, buildVars, apiVars>>

(***************************************************************************)
(* main after ensure_model_ready: build_backend, then the server.          *)
(***************************************************************************)
\* faulty variant: the result of ensure_model_ready is not looked at
AfterAcquisition_Ignored(how) == "build"

\* ensure_model_ready(&mut cfg)?: main goes on only after Ok
AfterAcquisition(how) == IF IsOk(how) THEN "build" ELSE "exit"

MainStep(p, to) ==
    /\ apc[p] = "ended"
    /\ boot = "acquiring"
    /\ boot' = to
    /\ UNCHANGED <<fs, apc, target, auto_download, polls, body, gets, outcome,
                   status, prev>>
    /\ UNCHANGED <<poolVars, buildVars, apiVars>>

\* ensure_model_ready returned Err: main returns it and the process ends
StartupAborted(p) ==
    /\ AfterAcquisition(outcome[p]) = "exit"
    /\ MainStep(p, "exited")

\* build_backend loads the contexts from cfg.whisper_model, the listener is
\* bound and the server runs
BuildBackendOk(p) ==
    /\ AfterAcquisition(outcome[p]) = "build"
    /\ fs[target[p]].kind = "data"
    /\ MainStep(p, "serving")

\* build_backend or the bind fails: main returns the error
BuildBackendErr(p) ==
    /\ AfterAcquisition(outcome[p]) = "build"
    /\ MainStep(p, "exited")

MainContinues(p) ==
    \/ StartupAborted(p)
    \/ BuildBackendOk(p)
    \/ BuildBackendErr(p)

(***************************************************************************)
(* Configuration of the pool size and construction of the pool:            *)
(* parse_usize_bounded, WhisperRsBackend::new and build_contexts.          *)
(***************************************************************************)
MAX_WHISPER_PARALLELISM == 8

DEFAULT_WHISPER_PARALLELISM == 1

Digits == <<"0", "1", "2", "3", "4", "5", "6", "7", "8", "9">>

DigitValue(c) == (CHOOSE i \in 1..Len(Digits) : Digits[i] = c) - 1

IsDigit(c) == \E i \in 1..Len(Digits) : Digits[i] = c

RECURSIVE ParseDigits(_, _)
ParseDigits(s, acc) ==
    IF s = <<>> THEN acc
    ELSE IF ~IsDigit(Head(s)) THEN -1
    ELSE ParseDigits(Tail(s), acc * 10 + DigitValue(Head(s)))

\* str::parse::<usize>: decimal digits after an optional "+"; -1 is Err
parse_usize(s) ==
    LET digits == IF s # <<>> /\ Head(s) = "+" THEN Tail(s) ELSE s
    IN  IF digits = <<>> THEN -1 ELSE ParseDigits(digits, 0)

\* faulty variant: the lower end of the range is not checked
OutOfRange_NoMin(parsed, min, max) == parsed > max

\* `parsed < min || parsed > max`
OutOfRange(parsed, min, max) == parsed < min \/ parsed > max

\* the value, or -1 for Err
parse_usize_bounded(raw, min, max) ==
    LET parsed == parse_usize(Trim(raw))
    IN  IF parsed = -1 THEN -1
        ELSE IF OutOfRange(parsed, min, max) THEN -1
        ELSE parsed

\* env::var(name), or the default written out when the variable is not set
env_usize_bounded(value, default, min, max) ==
    parse_usize_bounded(IF value = <<>> THEN <<Digits[default + 1]>>
                        ELSE value[1], min, max)

\* the values WHISPER_PARALLELISM and --whisper-parallelism are given
RawNumbers ==
    { <<"0">>, <<"1">>, <<"2">>, <<"3">>, <<"8">>, <<"9">>, <<"1", "0">>,
      <<" ", "2", " ">>, <<"+", "3">>, <<"-", "1">>, <<"x">>, <<>>, <<" ">> }

\* a variable or an option that is not set, or is set to one of the values
RawOptions == {<<>>} \cup {<<raw>> : raw \in RawNumbers}

AccelerationKinds == {"none", "metal", "cuda"}

\* the default of WHISPER_MODEL_ALIAS
DefaultAlias == "whisper-mlx"

NoConfig ==
    [whisper_parallelism |-> 0, acceleration_kind |-> "none",
     acceleration_explicit |-> FALSE, api_key |-> <<>>,
     api_model_alias |-> DefaultAlias]

NoBackend == [ok |-> FALSE, effective_acceleration |-> "none", causes |-> <<>>]

\* main: CliOptions::from_args, AppConfig::from_env, apply_cli_overrides; an
\* Err of either parse ends the process
LoadConfig ==
    /\ bpc = "config"
    /\ \E env \in RawOptions, cli \in RawOptions,
          kind \in AccelerationKinds, explicit \in BOOLEAN :
         LET option == IF cli = <<>> THEN 0
                       ELSE parse_usize_bounded(cli[1], 1, MAX_WHISPER_PARALLELISM)
             from_env == env_usize_bounded(env, DEFAULT_WHISPER_PARALLELISM, 1,
                                           MAX_WHISPER_PARALLELISM)
         IN  IF option = -1 \/ from_env = -1
             THEN /\ bpc' = "rejected"
                  /\ cfg' = cfg
             ELSE /\ bpc' = "start"
                  /\ cfg' = [whisper_parallelism |->
                                 IF cli = <<>> THEN from_env ELSE option,
                             acceleration_kind |-> kind,
                             acceleration_explicit |-> explicit,
                             api_key |-> <<>>,
                             api_model_alias |-> DefaultAlias]
    /\ UNCHANGED <<contexts, attempts, build_result>>
    /\ UNCHANGED <<poolVars, acqVars, apiVars>>

\* the acceleration of the call of build_contexts that is running
Acceleration == attempts[Len(attempts)].acceleration

\* the error of build_contexts: the worker whose load failed, and the mode
LoadError(worker_idx, acceleration) ==
    [worker |-> worker_idx + 1, acceleration |-> acceleration]

\* WhisperRsBackend::new calls build_contexts with cfg.acceleration_kind
BuildContextsStart ==
    /\ bpc = "start"
    /\ bpc' = "loading"
    /\ contexts' = <<>>
    /\ attempts' = <<[acceleration |-> cfg.acceleration_kind, error |-> <<>>]>>
    /\ UNCHANGED <<cfg, build_result>>
    /\ UNCHANGED <<poolVars, acqVars, apiVars>>

\* build_contexts: WhisperContext::new_with_params succeeds for the next worker
LoadOk ==
    /\ bpc = "loading"
    /\ Len(contexts) < cfg.whisper_parallelism
    /\ contexts' = Append(contexts, [use_gpu |-> Acceleration # "none"])
    /\ UNCHANGED <<cfg, bpc, attempts, build_result>>
    /\ UNCHANGED <<poolVars, acqVars, apiVars>>

\* faulty variant: the fallback is taken whoever asked for the acceleration
FallsBack_Always(explicit) == TRUE

\* `Err(err) if !cfg.acceleration_explicit`
FallsBack(explicit) == ~explicit

\* faulty variant: the second construction asks for the same acceleration
FallbackAcceleration_Same(requested) == requested

\* the acceleration of the second construction
FallbackAcceleration(requested) == "none"

\* build_contexts: the load of the next worker fails, the Vec is dropped and
\* the error returned; WhisperRsBackend::new returns it, or falls back
LoadErr ==
    /\ bpc = "loading"
    /\ Len(contexts) < cfg.whisper_parallelism
    /\ LET err == LoadError(Len(contexts), Acceleration)
           failed == [attempts EXCEPT ![Len(attempts)].error = <<err>>]
       IN  IF Len(attempts) = 1 /\ cfg.acceleration_kind # "none"
              /\ FallsBack(cfg.acceleration_explicit)
           THEN /\ attempts' = Append(failed,
                      [acceleration |-> FallbackAcceleration(cfg.acceleration_kind),
                       error |-> <<>>])
                /\ bpc' = "loading"
                /\ build_result' = build_result
           ELSE /\ attempts' = failed
                /\ bpc' = "failed"
                /\ build_result' =
                     [ok |-> FALSE, effective_acceleration |-> "none",
                      causes |-> IF Len(attempts) = 1 THEN <<err>>
                                 ELSE attempts[1].error \o <<err>>]
    /\ contexts' = <<>>
    /\ UNCHANGED cfg
    /\ UNCHANGED <<poolVars, acqVars, apiVars>>

\* build_contexts returns Ok(contexts) and WhisperRsBackend::new the backend
BuildDone ==
    /\ bpc = "loading"
    /\ Len(contexts) = cfg.whisper_parallelism
    /\ bpc' = "built"
    /\ build_result' = [ok |-> TRUE, effective_acceleration |-> Acceleration,
                        causes |-> <<>>]
    /\ UNCHANGED <<cfg, contexts, attempts>>
    /\ UNCHANGED <<poolVars, acqVars, apiVars>>

BuildStep ==
    \/ LoadConfig
    \/ BuildContextsStart
    \/ LoadOk
    \/ LoadErr
    \/ BuildDone

(***************************************************************************)
(* The HTTP handler: handle_audio_request up to the call of transcribe.    *)
(***************************************************************************)
\* the "language" fields received, and the languages of a TranscribeRequest
Languages == {<<>>, << <<"e", "s">> >>, << <<" ">> >>}

\* the identifiers validate_requested_model accepts
accepted_model_ids(c) == {"whisper-1", c.api_model_alias}

\* the spellings eq_ignore_ascii_case("bearer") accepts, of those received
BearerSchemes == {"Bearer", "bearer", "BEARER"}

\* what the Authorization header may hold, split at whitespace; <<>> is no
\* header
Authorizations ==
    { <<>>, << <<"Bearer", "k">> >>, << <<"bearer", "k">> >>,
      << <<"Bearer", "x">> >>, << <<"Basic", "k">> >>, << <<"Bearer">> >>,
      << <<"Bearer", "k", "k">> >> }

\* require_auth: TRUE for Ok
require_auth(c, authorization) ==
    \/ c.api_key = <<>>
    \/ /\ authorization # <<>>
       /\ Len(authorization[1]) = 2
       /\ authorization[1][1] \in BearerSchemes
       /\ authorization[1][2] = c.api_key[1]

\* ResponseFormat::parse: the names that parse
ResponseFormats == {"json", "text", "verbose_json", "srt", "vtt"}

\* str::parse::<f32> on the temperatures received: the value in tenths, or
\* what else the parse gives
parse_f32(raw) ==
    CASE raw = "0" -> [kind |-> "finite", tenths |-> 0]
      [] raw = "0.5" -> [kind |-> "finite", tenths |-> 5]
      [] raw = "1" -> [kind |-> "finite", tenths |-> 10]
      [] raw = "1.5" -> [kind |-> "finite", tenths |-> 15]
      [] raw = "-0.1" -> [kind |-> "finite", tenths |-> -1]
      [] raw = "NaN" -> [kind |-> "nan", tenths |-> 0]
      [] raw = "inf" -> [kind |-> "infinite", tenths |-> 0]
      [] OTHER -> [kind |-> "err", tenths |-> 0]

Temperatures == {"", "0", "0.5", "1", "1.5", "-0.1", "NaN", "inf", "abc"}

\* faulty variant: the range of the temperature is not checked
TemperatureInRange_Any(value) == TRUE

\* `(0.0..=1.0).contains(&value)`
TemperatureInRange(value) == value.tenths >= 0 /\ value.tenths <= 10

\* the "temperature" field: an empty one is no temperature
TemperatureOk(raw) ==
    \/ raw = ""
    \/ /\ parse_f32(raw).kind = "finite"
       /\ TemperatureInRange(parse_f32(raw))

\* the "temperature" field that passed the checks: Some(value), None when empty
FormTemperature(raw) == IF raw = "" THEN <<>> ELSE <<parse_f32(raw).tenths>>

\* the "language" field: trimmed, and dropped when nothing is left
FormLanguage(field) ==
    IF field = <<>> \/ Trim(field[1]) = <<>> THEN <<>> ELSE <<Trim(field[1])>>

\* the fields of a request whose checks all pass
NoForm ==
    [authorization |-> <<>>, model |-> "whisper-1", response_format |-> "json",
     temperature |-> "", file |-> "audio", language |-> <<>>]

Forms ==
    [authorization : Authorizations,
     model : {"whisper-1", DefaultAlias, "gpt-4", ""},
     response_format : {"json", "vtt", "xml"},
     temperature : Temperatures,
     file : {"audio", "missing", "unsupported"},
     language : Languages]

ApiStep(r, next, sent) ==
    /\ pc' = [pc EXCEPT ![r] = next]
    /\ response' = [response EXCEPT ![r] = sent]
    /\ UNCHANGED <<next_context_idx, holder, picks, engine, ctx, count,
                   segments, state_lang, log, result, arrivals, poisoned>>
    /\ UNCHANGED <<acqVars, buildVars>>

\* a POST on /v1/audio/transcriptions reaches handle_audio_request
Receive(r) ==
    /\ bpc = "built"
    /\ pc[r] = "absent"
    /\ \E f \in Forms : form' = [form EXCEPT ![r] = f]
    /\ caller' = [caller EXCEPT ![r] = "waiting"]
    /\ ApiStep(r, "received", "none")
    /\ UNCHANGED req

\* require_auth(&state.cfg, &headers)?
RequireAuth(r) ==
    /\ pc[r] = "received"
    /\ IF require_auth(cfg, form[r].authorization)
       THEN ApiStep(r, "authed", "none")
       ELSE ApiStep(r, "rejected", "401")
    /\ UNCHANGED <<form, caller, req>>

\* parse_audio_form: the fields are checked as they are read, the file and
\* the model at the end
ParseAudioForm(r) ==
    /\ pc[r] = "authed"
    /\ IF \/ form[r].response_format \notin ResponseFormats
          \/ ~TemperatureOk(form[r].temperature)
          \/ form[r].file = "missing"
          \/ form[r].model = ""
       THEN ApiStep(r, "rejected", "400")
       ELSE IF form[r].file = "unsupported"
            THEN ApiStep(r, "rejected", "415")
            ELSE ApiStep(r, "parsed", "none")
    /\ UNCHANGED <<form, caller, req>>

\* faulty variant: any model identifier is accepted
ModelAccepted_Any(c, requested_model) == TRUE

\* validate_requested_model
ModelAccepted(c, requested_model) == requested_model \in accepted_model_ids(c)

ValidateRequestedModel(r) ==
    /\ pc[r] = "parsed"
    /\ IF ModelAccepted(cfg, form[r].model)
       THEN ApiStep(r, "validated", "none")
       ELSE ApiStep(r, "rejected", "400")
    /\ UNCHANGED <<form, caller, req>>

\* the audio is decoded and the TranscribeRequest built, or the decoder
\* refuses the bytes
DecodeAudio(r) ==
    /\ pc[r] = "validated"
    /\ \/ /\ ApiStep(r, "idle", "none")
          /\ req' = [req EXCEPT ![r].language = FormLanguage(form[r].language),
                                ![r].temperature = FormTemperature(form[r].temperature)]
       \/ /\ ApiStep(r, "rejected", "415")
          /\ req' = req
    /\ UNCHANGED <<form, caller>>

HandleAudioRequest(r) ==
    \/ Receive(r)
    \/ RequireAuth(r)
    \/ ParseAudioForm(r)
    \/ ValidateRequestedModel(r)
    \/ DecodeAudio(r)

(***************************************************************************)
(* Inputs.                                                                 *)
(***************************************************************************)
\* TranscribeRequest values: the prompts, temperatures (in tenths), tasks and
\* sample vectors a request may carry
Prompts == {<<>>, << <<" ">> >>, << <<"h", "i", " ">> >>}

RequestTemperatures == {<<>>, <<0>>, <<5>>}

Tasks == {"transcribe", "translate"}

Audios == {"clip_a", "clip_b"}

\* a transcription request with no prompt and no temperature
PlainRequests(languages) ==
    [language : languages, prompt : {<<>>}, temperature : {<<>>},
     task : {"transcribe"}, audio_16khz_mono_f32 : {"clip_a"}]

\* the backend and its requests: a counter that has been fetched `served`
\* times since `new`, n contexts whose Mutex is free
PoolInitAt(active, audio, requests, served, n) ==
    /\ next_context_idx = served
    /\ holder = [h \in 0..(n - 1) |-> 0]
    /\ poisoned = [h \in 0..(n - 1) |-> FALSE]
    /\ picks = <<>>
    /\ engine = audio
    /\ req \in requests
    /\ pc = [r \in Reqs |-> IF r \in active THEN "idle" ELSE "absent"]
    /\ ctx = [r \in Reqs |-> -1]
    /\ count = [r \in Reqs |-> 0]
    /\ segments = [r \in Reqs |-> <<>>]
    /\ state_lang = [r \in Reqs |-> <<>>]
    /\ log = [r \in Reqs |-> <<>>]
    /\ result = [r \in Reqs |-> NoResult]
    /\ arrivals = <<>>
    /\ caller = [r \in Reqs |-> IF r \in active THEN "waiting" ELSE "none"]

PoolInitWith(active, audio, requests) ==
    PoolInitAt(active, audio, requests, 0, PoolSize)

PoolInit(active, audio, languages) ==
    PoolInitWith(active, audio, [Reqs -> PlainRequests(languages)])

\* a backend built without acceleration, with n contexts
BuiltWith(n, key, alias) ==
    /\ cfg = [whisper_parallelism |-> n, acceleration_kind |-> "none",
              acceleration_explicit |-> FALSE, api_key |-> key,
              api_model_alias |-> alias]
    /\ bpc = "built"
    /\ contexts = [h \in 1..n |-> [use_gpu |-> FALSE]]
    /\ attempts = <<[acceleration |-> "none", error |-> <<>>]>>
    /\ build_result = [ok |-> TRUE, effective_acceleration |-> "none",
                       causes |-> <<>>]

Built(n) == BuiltWith(n, <<>>, DefaultAlias)

\* no configuration read and no backend built yet
Unbuilt(at) ==
    /\ cfg = NoConfig
    /\ bpc = at
    /\ contexts = <<>>
    /\ attempts = <<>>
    /\ build_result = NoBackend

\* no request is in the handler
ApiIdle ==
    /\ form = [r \in Reqs |-> NoForm]
    /\ response = [r \in Reqs |-> "none"]

AcqIdle ==
    /\ fs = <<>>
    /\ apc = [p \in Procs |-> "absent"]
    /\ target = [p \in Procs |-> <<>>]
    /\ auto_download = [p \in Procs |-> FALSE]
    /\ polls = [p \in Procs |-> 0]
    /\ body = [p \in Procs |-> 0]
    /\ gets = [p \in Procs |-> 0]
    /\ outcome = [p \in Procs |-> "none"]
    /\ status = [p \in Procs |-> NoResponse]
    /\ prev = [p \in Procs |-> "none"]
    /\ boot = "none"

(***************************************************************************)
(* SpecOrch: one request alone, over every engine behaviour.               *)
(***************************************************************************)
OrchInit(audio) ==
    /\ PoolInit({1}, audio, Languages)
    /\ \A r \in Reqs \ {1} : req[r].language = <<>>
    /\ AcqIdle
    /\ Built(PoolSize)
    /\ ApiIdle

InitOrch == OrchInit("any")

NextOrch == RequestStep(1)

SpecOrch == InitOrch /\ [][NextOrch]_vars

\* the same run under fairness: the worker thread, once dispatched, keeps
\* running until run_whisper_rs returns
InitOrchFair == OrchInit("brief")

SpecOrchFair == InitOrchFair /\ [][NextOrch]_vars /\ WF_vars(NextOrch)

(***************************************************************************)
(* SpecParams: one request alone, over the prompts, temperatures, tasks    *)
(* and sample vectors a request may carry.                                 *)
(***************************************************************************)
ParamsInit(audio) ==
    /\ PoolInitWith({1}, audio,
                    {[r \in Reqs |-> q] :
                       q \in [language : Languages, prompt : Prompts,
                              temperature : RequestTemperatures, task : Tasks,
                              audio_16khz_mono_f32 : Audios]})
    /\ AcqIdle
    /\ Built(PoolSize)
    /\ ApiIdle

InitParams == ParamsInit("event_audio")

SpecParams == InitParams /\ [][NextOrch]_vars

\* the same requests on audio whose speech is written in wide letters
InitWide == ParamsInit("wide_audio")

SpecWide == InitWide /\ [][NextOrch]_vars

(***************************************************************************)
(* SpecWrap: the selections of a backend of every pool size that has       *)
(* served requests before (all of them returned: the counter is what they  *)
(* leave), up to the point where its counter wraps.                        *)
(***************************************************************************)
InitWrap ==
    \E n \in 1..MAX_WHISPER_PARALLELISM, served \in 0..(2 ^ WordBits - 1) :
      /\ PoolInitAt(Reqs, "event_audio", [Reqs -> PlainRequests({<<>>})], served, n)
      /\ Built(n)
      /\ AcqIdle
      /\ ApiIdle

NextWrap == \E r \in Reqs : Transcribe(r)

SpecWrap == InitWrap /\ [][NextWrap]_vars

(***************************************************************************)
(* SpecPool: concurrent requests on the pool.                              *)
(***************************************************************************)
InitPool ==
    /\ PoolInit(Reqs, "event_audio", {<<>>})
    /\ AcqIdle
    /\ Built(PoolSize)
    /\ ApiIdle

NextPool == \E r \in Reqs : RequestStep(r)

SpecPool == InitPool /\ [][NextPool]_vars

\* the same under fairness: as long as some worker thread can take a step
\* (a thread blocked in Mutex::lock can once the Mutex is free), one does
SpecPoolFair == InitPool /\ [][NextPool]_vars /\ WF_vars(NextPool)

(***************************************************************************)
(* SpecPanic: the same requests with workers that may panic while they     *)
(* hold the guard of their context.                                        *)
(***************************************************************************)
NextPanic ==
    \/ NextPool
    \/ \E r \in Reqs : Panic(r)
    \/ \E r \in Reqs : LockPoisoned(r)

SpecPanic == InitPool /\ [][NextPanic]_vars

(***************************************************************************)
(* SpecCancel: the same requests with callers that may give up; the        *)
(* worker threads are scheduled fairly, the callers are free.              *)
(***************************************************************************)
NextCancel ==
    \/ NextPool
    \/ \E r \in Reqs : Abandon(r)

SpecCancel == InitPool /\ [][NextCancel]_vars /\ WF_vars(NextPool)

(***************************************************************************)
(* SpecAcq: processes running ensure_model_ready on one target.            *)
(***************************************************************************)
Targets == {<<"m", "bin">>, <<"m", "part">>}

FileNames ==
    Targets \cup {lock_path_for(t) : t \in Targets}
            \cup {tmp_path_for(t) : t \in Targets}

PoolIdle == PoolInit({}, "event_audio", {<<>>})

InitAcq ==
    /\ PoolIdle
    /\ Unbuilt("none")
    /\ ApiIdle
    /\ \E t \in Targets :
         /\ target = [p \in Procs |-> t]
         /\ \E pre \in {Absent, DataFile(1, 1, 0)} :
              fs = [n \in FileNames |-> IF n = t THEN pre ELSE Absent]
    /\ apc = [p \in Procs |-> "start"]
    /\ auto_download \in [Procs -> BOOLEAN]
    /\ polls = [p \in Procs |-> 0]
    /\ body = [p \in Procs |-> 0]
    /\ gets = [p \in Procs |-> 0]
    /\ outcome = [p \in Procs |-> "none"]
    /\ status = [p \in Procs |-> NoResponse]
    /\ prev = [p \in Procs |-> "none"]
    /\ boot = "acquiring"

NextAcq == \E p \in Procs : AcquisitionStep(p)

SpecAcq == InitAcq /\ [][NextAcq]_vars

(***************************************************************************)
(* SpecCrash: the same processes, any of which may be killed while it      *)
(* holds the lock; a process that is alive keeps running.                  *)
(***************************************************************************)
NextCrash ==
    \/ NextAcq
    \/ \E p \in Procs : Kill(p)

SpecCrash == InitAcq /\ [][NextCrash]_vars /\ WF_vars(NextAcq)

(***************************************************************************)
(* SpecBoot: the same processes, each going on with main.                  *)
(***************************************************************************)
NextBoot ==
    \/ NextAcq
    \/ MainContinues(1)

SpecBoot == InitAcq /\ [][NextBoot]_vars

(***************************************************************************)
(* SpecTwice: the same processes, the first of which calls                 *)
(* ensure_model_ready a second time.                                       *)
(***************************************************************************)
NextTwice ==
    \/ NextAcq
    \/ CallAgain(1)

SpecTwice == InitAcq /\ [][NextTwice]_vars

(***************************************************************************)
(* SpecBuild: the configuration is read, the pool is built and the first   *)
(* requests pick their context.                                            *)
(***************************************************************************)
InitBuild ==
    /\ PoolInit(Reqs, "event_audio", {<<>>})
    /\ AcqIdle
    /\ Unbuilt("config")
    /\ ApiIdle

NextBuild ==
    \/ BuildStep
    \/ \E r \in Reqs : Transcribe(r)

SpecBuild == InitBuild /\ [][NextBuild]_vars

(***************************************************************************)
(* SpecApi: one request from the handler to the end of run_whisper_rs, on  *)
(* a server with or without an API key, with or without an alias.          *)
(***************************************************************************)
InitApi ==
    /\ PoolInit({}, "event_audio", {<<>>})
    /\ AcqIdle
    /\ \E key \in {<<>>, <<"k">>}, alias \in {"whisper-1", DefaultAlias} :
         BuiltWith(PoolSize, key, alias)
    /\ ApiIdle

NextApi ==
    \/ HandleAudioRequest(1)
    \/ RequestStep(1)

SpecApi == InitApi /\ [][NextApi]_vars

(***************************************************************************)
(* Properties.                                                             *)
(***************************************************************************)
\* the request holds the Mutex of its context (from lock() to the return)
HoldsContext(r) == pc[r] \in {"locked", "pass1", "pass2", "pass3", "finalize"}

\* C1: under any interleaving of transcribe calls, a context is held by at
\* most one request at a time, so at most PoolSize requests decode at once.
C1_ContextExclusive ==
    /\ \A r1, r2 \in Reqs :
         (HoldsContext(r1) /\ HoldsContext(r2) /\ ctx[r1] = ctx[r2]) => r1 = r2
    /\ Cardinality({r \in Reqs : HoldsContext(r)}) <= PoolSize

\* every context is in use at once while another request waits for a busy one
C1_Witness ==
    /\ \A h \in Contexts : \E r \in Reqs : HoldsContext(r) /\ ctx[r] = h
    /\ \E r, w \in Reqs :
         /\ pc[r] \in {"pass1", "pass2", "pass3"}
         /\ pc[w] = "dispatched"
         /\ ctx[w] = ctx[r]

\* C5: the k-th index handed out (k = 0, 1, ..., in the order of the
\* fetch_add calls) is k mod PoolSize, whatever the interleaving.
C5_RoundRobin ==
    /\ \A k \in 1..Len(picks) : picks[k] = (k - 1) % PoolSize
    /\ Len(picks) = Cardinality({r \in Reqs : ctx[r] # -1})
    /\ \A r \in Reqs : ctx[r] # -1 => \E k \in 1..Len(picks) : picks[k] = ctx[r]

\* a second round has begun while requests of the first are still running
C5_Witness ==
    /\ Len(picks) > PoolSize
    /\ picks[PoolSize + 1] = 0
    /\ \E r \in Reqs : HoldsContext(r)

PassOf(r, i) == log[r][i].pass
Failed(e) == e.status # "ok"

\* text that is a bracketed event marker, as the claim words it
IsMarker(text) ==
    LET t == Trim(text)
    IN  /\ Len(t) >= 1
        /\ t[1] = "("
        /\ t[Len(t)] = ")"
        /\ \A i \in 1..Len(t) : t[i] # " "

AllMarkers(segs) ==
    /\ Len(segs) >= 1
    /\ \A i \in 1..Len(segs) : IsMarker(segs[i].text)

\* C6: an error in pass 1, 2 or 3 ends the request at once with an error: no
\* pass follows it and no earlier result is returned; a fallback pass starts
\* only on a quality trigger (no segments, or markers only).
C6_ErrorIsFatal ==
    \A r \in Reqs :
      /\ \A i \in 1..Len(log[r]) :
           Failed(log[r][i]) =>
             /\ i = Len(log[r])
             /\ pc[r] = "failed"
             /\ ~result[r].ok
             /\ result[r].segments = <<>>
      /\ \A i \in 2..Len(log[r]) :
           /\ ~Failed(log[r][i - 1])
           /\ PassOf(r, i) = 2 => Len(log[r][i - 1].raw) = 0
           /\ PassOf(r, i) = 3 => AllMarkers(log[r][i].held)

\* pass 3 failed while an earlier pass had produced segments
C6_Witness ==
    /\ pc[1] = "failed"
    /\ Len(log[1]) >= 2
    /\ PassOf(1, Len(log[1])) = 3
    /\ log[1][Len(log[1])].status = "engine_error"
    /\ log[1][Len(log[1])].held # <<>>

PassOrderOK(r) ==
    /\ Len(log[r]) <= 3
    /\ Len(log[r]) >= 1 => PassOf(r, 1) = 1
    /\ \A i \in 2..Len(log[r]) : PassOf(r, i) \in {2, 3} /\ PassOf(r, i) > PassOf(r, i - 1)

\* the run ended in an execution error: create_state or a pass failed
EndedInError(r) ==
    /\ pc[r] = "failed"
    /\ Len(log[r]) >= 1 => Failed(log[r][Len(log[r])])

\* C7: a run executes pass 1 once, then pass 2 at most once, then pass 3 at
\* most once, in that order; a run that meets no execution error reaches
\* the finalization and ends.
C7_BoundedPasses ==
    /\ [](\A r \in Reqs : PassOrderOK(r))
    /\ [](pc[1] = "failed" => EndedInError(1))
    /\ [](pc[1] = "done" => (Len(log[1]) >= 1 /\ result[1].ok))
    /\ <>(pc[1] \in {"done", "failed"})

\* a run of three passes that reached its end
C7_Witness ==
    /\ pc[1] = "done"
    /\ Len(log[1]) = 3
    /\ result[1].ok

\* C8: with no language hint, a primary pass in which the engine returns no
\* segment is followed by pass 2; when pass 2 returns none either, no third
\* pass runs and the call returns Ok with empty text, no segments and "en".
C8_SilenceIsEmptyEnglish ==
    \A r \in Reqs :
      (/\ req[r].language = <<>>
       /\ Len(log[r]) >= 1
       /\ ~Failed(log[r][1])
       /\ Len(log[r][1].raw) = 0)
      => /\ pc[r] = "pass2" \/ (Len(log[r]) >= 2 /\ PassOf(r, 2) = 2)
         /\ (Len(log[r]) >= 2 /\ ~Failed(log[r][2]) /\ Len(log[r][2].raw) = 0)
            => /\ Len(log[r]) = 2
               /\ pc[r] \in {"finalize", "done"}
               /\ pc[r] = "done" =>
                    result[r] = [ok |-> TRUE, text |-> <<>>,
                                 language |-> << <<"e", "n">> >>,
                                 segments |-> <<>>]

\* silence went through pass 1 and pass 2 and was returned
C8_Witness ==
    /\ pc[1] = "done"
    /\ req[1].language = <<>>
    /\ Len(log[1]) = 2
    /\ Len(log[1][1].raw) = 0
    /\ log[1][1].lang = <<"f", "r">>
    /\ Len(log[1][2].raw) = 0

HasPass(r, n) == \E i \in 1..Len(log[r]) : PassOf(r, i) = n

\* C9: pass 3 runs exactly when the segments held are a non-empty list of
\* markers only; a list with a segment that is no marker, and the empty
\* list, never lead to it.
C9_Pass3Trigger ==
    \A r \in Reqs :
      /\ \A i \in 1..Len(log[r]) : PassOf(r, i) = 3 => AllMarkers(log[r][i].held)
      /\ pc[r] = "pass3" => AllMarkers(segments[r])
      /\ (pc[r] \in {"finalize", "done"} /\ ~HasPass(r, 3)) => ~AllMarkers(segments[r])

\* pass 3 ran on two markers, one of them padded and wider than one byte
C9_Witness ==
    \E i \in 1..Len(log[1]) :
      /\ PassOf(1, i) = 3
      /\ Len(log[1][i].held) = 2
      /\ log[1][i].held[2].text = <<"(", "U+00E9", ")">>

HoldsLock(p) ==
    apc[p] \in {"recheck", "download", "create_tmp", "copy", "remove_tmp",
                "rename", "release"}

Adopted(p) == outcome[p] \in {"ok_configured", "ok_adopted", "ok_adopted_locked"}

\* C2: of the processes acquiring one target, at most one holds the lock
\* file at a time and at most one installs a download; the others that
\* succeed adopt the file through an existence check and send no request.
C2_OneDownloader ==
    /\ Cardinality({p \in Procs : HoldsLock(p)}) <= 1
    /\ Cardinality({p \in Procs : outcome[p] = "ok_downloaded"}) <= 1
    /\ \A p \in Procs : Adopted(p) => gets[p] = 0
    /\ \A p \in Procs :
         (apc[p] = "ended" /\ (Adopted(p) \/ outcome[p] = "ok_downloaded"))
         => model_file_exists(target[p])

\* one process installed the download, another waited for the lock and adopted
C2_Witness ==
    \E p, q \in Procs :
      /\ apc[p] = "ended" /\ outcome[p] = "ok_downloaded"
      /\ apc[q] = "ended" /\ outcome[q] = "ok_adopted_locked"
      /\ polls[q] > 0

\* C3 as claimed: the target is absent, untouched, or the complete non-empty
\* download.
C3_TargetNeverPartial ==
    \A p \in Procs :
      LET f == fs[target[p]]
      IN  \/ f.kind = "absent"
          \/ f.by = 0
          \/ (f.kind = "data" /\ f.len = f.total /\ f.len > 0)

CharCount(segs) == Len(normalize_text(JoinedText(segs)))

\* C11 as claimed: the score by which the candidate of pass 3 and the segments
\* held are compared is the number of characters of their normalized text,
\* also when a character takes more than one byte.
C11_ScoreIsCharCount ==
    \A r \in Reqs :
      \A i \in 1..Len(log[r]) :
        (PassOf(r, i) = 3 /\ ~Failed(log[r][i])) =>
          /\ transcript_score(log[r][i].held) = CharCount(log[r][i].held)
          /\ transcript_score(ExtractFrom(log[r][i].raw))
               = CharCount(ExtractFrom(log[r][i].raw))
          /\ AggressiveWins(ExtractFrom(log[r][i].raw), log[r][i].held)
               <=> (CharCount(ExtractFrom(log[r][i].raw)) > CharCount(log[r][i].held))


NoSpaces(s) == SelectSeq(s, LAMBDA c : c # " ")

\* the texts of the segments, one after the other
RECURSIVE Concat(_)
Concat(segs) == IF segs = <<>> THEN <<>> ELSE Head(segs).text \o Concat(Tail(segs))

\* the words of the segments, in the order of the segments
RECURSIVE Words(_)
Words(segs) ==
    IF segs = <<>> THEN <<>>
    ELSE SplitWhitespace(Head(segs).text) \o Words(Tail(segs))

\* single spaces only, none at either end
SingleSpaced(t) ==
    /\ t # <<>> => (t[1] # " " /\ t[Len(t)] # " ")
    /\ \A i \in 1..(Len(t) - 1) : ~(t[i] = " " /\ t[i + 1] = " ")

\* C12: the text of a returned result is the texts of the returned segments,
\* in their order, joined by single spaces with every whitespace run collapsed
\* and no space at either end; the returned segments are those of the pass
\* that was kept, none re-ordered, dropped or cut.
C12_TextIsJoinedSegments ==
    \A r \in Reqs :
      pc[r] = "done" =>
        /\ result[r].ok
        /\ SingleSpaced(result[r].text)
        /\ NoSpaces(result[r].text) = NoSpaces(Concat(result[r].segments))
        /\ SplitWhitespace(result[r].text) = Words(result[r].segments)
        /\ result[r].segments = segments[r]
        /\ result[r].segments # <<>> =>
             \E i \in 1..Len(log[r]) :
               /\ ~Failed(log[r][i])
               /\ result[r].segments = ExtractFrom(log[r][i].raw)

\* two segments were returned, one of them with a run of spaces inside
C12_Witness ==
    /\ pc[1] = "done"
    /\ Len(result[1].segments) = 2
    /\ result[1].segments[1].text = TextEventSpaced
    /\ result[1].segments[2].text = TextWords
    /\ result[1].text = <<"(", "a", " ", "b", ")", " ", "a", " ", "b">>


\* C13: the language of a returned result is the caller's language, exactly
\* as given, whenever one was given, whichever passes ran; otherwise it is
\* the language detected or used by the last pass that was executed.
C13_LanguageReported ==
    \A r \in Reqs :
      (pc[r] = "done" /\ Len(log[r]) >= 1) =>
        IF req[r].language # <<>>
        THEN result[r].language = req[r].language
        ELSE result[r].language = <<log[r][Len(log[r])].lang>>

\* a caller's language of one space was echoed after pass 3 had run, and the
\* decode itself had used the engine's default
C13_Witness ==
    /\ pc[1] = "done"
    /\ req[1].language = << <<" ">> >>
    /\ result[1].language = << <<" ">> >>
    /\ Len(log[1]) = 2
    /\ PassOf(1, 2) = 3
    /\ log[1][2].lang = DefaultLanguage


\* request a went through fetch_add before request b did
ArrivedBefore(a, b) ==
    \E i, j \in 1..Len(arrivals) : i < j /\ arrivals[i] = a /\ arrivals[j] = b

\* C14 as claimed: of two requests given the same context, the one that was
\* given it first takes its Mutex first: the later one never takes it while
\* the earlier one is still waiting for it.
C14_ArrivalOrder ==
    [][\A a, b \in Reqs :
         (/\ ArrivedBefore(a, b)
          /\ ctx[a] = ctx[b]
          /\ pc[a] = "dispatched"
          /\ pc[b] = "dispatched")
         => pc'[b] # "locked"]_vars


\* the context of the request is held by another request
FindsBusy(r) ==
    pc[r] = "dispatched" /\ holder[ctx[r]] # 0 /\ holder[ctx[r]] # r

\* C15: a request whose context is busy waits for the Mutex: it is never
\* failed because of the contention (a waiting request only waits or takes
\* the Mutex, and every failure is that of create_state or of a decode pass),
\* it gets the Mutex once the requests ahead of it have returned, and it runs.
C15_WaitsThenRuns ==
    /\ [][\A r \in Reqs :
            pc[r] = "dispatched" => pc'[r] \in {"dispatched", "locked"}]_vars
    /\ [](\A r \in Reqs : pc[r] = "failed" => EndedInError(r))
    /\ \A r \in Reqs : FindsBusy(r) ~> HoldsContext(r)
    /\ <>(\A r \in Reqs : pc[r] \in {"done", "failed"})

\* a request waits for its context while the holder is in its third pass
C15_Witness ==
    \E w, r \in Reqs :
      /\ FindsBusy(w)
      /\ holder[ctx[w]] = r
      /\ pc[r] = "pass3"
      /\ Len(log[r]) = 2


\* C16: when the caller gives up after the dispatch, the worker is not
\* interrupted: the step of giving up changes nothing of the worker, the
\* worker keeps its context locked while it runs (so the other requests on
\* that context wait), it runs to its return and releases the context, and
\* its result is never taken.
C16_AbandonedWorkerCompletes ==
    /\ [][\A r \in Reqs :
            caller'[r] # caller[r] =>
              /\ pc' = pc /\ holder' = holder /\ ctx' = ctx
              /\ segments' = segments /\ log' = log /\ result' = result]_vars
    /\ [](\A r \in Reqs :
            (caller[r] = "gone" /\ HoldsContext(r)) =>
              /\ holder[ctx[r]] = r
              /\ \A w \in Reqs \ {r} : ctx[w] = ctx[r] => ~HoldsContext(w))
    /\ [](\A r \in Reqs :
            (caller[r] = "gone" /\ pc[r] \in {"done", "failed"}) =>
              /\ holder[ctx[r]] # r
              /\ pc[r] = "failed" => EndedInError(r)
              /\ pc[r] = "done" => result[r].ok)
    /\ [][\A r \in Reqs : caller[r] = "gone" => caller'[r] = "gone"]_vars
    /\ <>(\A r \in Reqs : pc[r] \in {"done", "failed"})

\* the caller of a request has gone while its worker, in its third pass,
\* holds the context another request is waiting for
C16_Witness ==
    \E r, w \in Reqs :
      /\ caller[r] = "gone"
      /\ pc[r] = "pass3"
      /\ holder[ctx[r]] = r
      /\ FindsBusy(w)
      /\ ctx[w] = ctx[r]
      /\ caller[w] = "waiting"


\* C17: the pool is built only after ensure_model_ready returned Ok; whenever
\* it has returned Ok the configured path names a regular file that is not
\* empty; when it returned Err no pool is built and the process never serves.
C17_PoolAfterAcquisition ==
    /\ boot # "acquiring" => apc[1] = "ended"
    /\ boot = "serving" => IsOk(outcome[1])
    /\ (apc[1] = "ended" /\ ~IsOk(outcome[1])) => boot \in {"acquiring", "exited"}
    /\ \A p \in Procs :
         (apc[p] = "ended" /\ IsOk(outcome[p])) =>
           /\ fs[target[p]].kind = "data"
           /\ fs[target[p]].len > 0

\* the process serves with a model another instance downloaded while it was
\* waiting for the lock
C17_Witness ==
    /\ boot = "serving"
    /\ outcome[1] = "ok_adopted_locked"
    /\ polls[1] > 0
    /\ \E q \in Procs : outcome[q] = "ok_downloaded"

\* C18: when the first of two calls in sequence installed the file, the
\* second call is one step through the first existence check: it returns Ok,
\* sends no request, creates no lock file and no temporary file, and leaves
\* the directory and the configured path as they were.
C18_SecondCallFastPath ==
    [][\A p \in Procs :
         (prev[p] = "ok_downloaded" /\ apc'[p] # apc[p]) =>
           /\ apc[p] = "start"
           /\ apc'[p] = "ended"
           /\ outcome'[p] = "ok_configured"
           /\ gets'[p] = 0
           /\ status'[p] = NoResponse
           /\ fs' = fs
           /\ fs[target[p]].kind = "data"
           /\ fs[target[p]].by = p
           /\ fs[target[p]].len = fs[target[p]].total
           /\ target' = target]_vars

\* the second call has returned, after a first call that downloaded the
\* model to a target ending in .part, while another process still waits
C18_Witness ==
    /\ prev[1] = "ok_downloaded"
    /\ apc[1] = "ended"
    /\ outcome[1] = "ok_configured"
    /\ gets[1] = 0
    /\ target[1] = <<"m", "part">>
    /\ \E q \in Procs : apc[q] = "acquire"


\* the process is in download_model_to_path
Downloading(p) ==
    apc[p] \in {"download", "create_tmp", "copy", "remove_tmp", "rename"}

OwnsLockFile(p) == fs[lock_path_for(target[p])] = LockFile(p)

BadStatus(p) == status[p] # NoResponse /\ ~IsSuccess(status[p])

\* C20: on a response whose status is no success (401 or 403, 404, any
\* other) the call fails with the error of that class, no temporary file is
\* created and the directory is left as it was; the request is not sent
\* again: a call sends at most one GET.
C20_BadStatusIsFatal ==
    /\ [](\A p \in Procs :
            /\ gets[p] <= 1
            /\ BadStatus(p) =>
                 /\ gets[p] = 1
                 /\ apc[p] \in {"release", "ended"}
                 /\ status[p] \in {"401", "403"} => outcome[p] = "err_auth"
                 /\ status[p] = "404" => outcome[p] = "err_not_found"
                 /\ status[p] \notin {"401", "403", "404"} => outcome[p] = "err_status"
                 /\ \A n \in DOMAIN fs : fs[n].kind = "data" => fs[n].by # p)
    /\ [][\A p \in Procs :
            (status'[p] # status[p] /\ ~IsSuccess(status'[p])) => fs' = fs]_vars

\* a download refused with 403 has ended: nothing but the error is left
C20_Witness ==
    \E p \in Procs :
      /\ status[p] = "403"
      /\ outcome[p] = "err_auth"
      /\ apc[p] = "ended"
      /\ gets[p] = 1
      /\ \A n \in DOMAIN fs : fs[n].kind = "absent"


\* C21: a download whose stream ends with an empty body is never installed:
\* the size check sends the call to the removal of the temporary file and
\* not to the rename, the call returns the error of the empty download with
\* the temporary file gone and the target holding no model, and only a
\* download with a body is ever renamed to the target.
C21_EmptyDownloadRefused ==
    \A p \in Procs :
      /\ apc[p] = "remove_tmp" =>
           /\ body[p] = 0
           /\ fs[tmp_path_for(target[p])] = DataFile(0, 0, p)
      /\ apc[p] = "rename" => body[p] > 0
      /\ outcome[p] = "ok_downloaded" => body[p] > 0
      /\ outcome[p] = "err_empty" =>
           /\ body[p] = 0
           /\ IsSuccess(status[p])
           /\ apc[p] \in {"release", "ended"}
           /\ ~IsOk(outcome[p])
           /\ \A n \in {target[p], tmp_path_for(target[p])} :
                ~(fs[n].kind = "data" /\ fs[n].by = p)
           /\ apc[p] = "release" =>
                /\ fs[tmp_path_for(target[p])] = Absent
                /\ ~model_file_exists(target[p])

\* an empty body was received for m.bin: m.part is gone, m.bin is not there
\* and the call is returning the error
C21_Witness ==
    \E p \in Procs :
      /\ outcome[p] = "err_empty"
      /\ apc[p] = "release"
      /\ status[p] = "200"
      /\ target[p] = <<"m", "bin">>
      /\ fs[<<"m", "part">>] = Absent
      /\ fs[<<"m", "bin">>] = Absent


\* the process has created or written nothing in the directory
OwnsNothing(p) == \A n \in DOMAIN fs : fs[n].kind # "absent" => fs[n].by # p

\* C22: when the configured path is no non-empty file and downloading is
\* disabled, the first step of the call returns the error of the missing
\* model and is its only step: the directory is left as it was, no lock is
\* asked for, no request is sent and no file of the process ever exists.
C22_DisabledDownloadFails ==
    /\ [](\A p \in Procs :
            outcome[p] = "err_no_download" =>
              /\ apc[p] = "ended"
              /\ ~auto_download[p]
              /\ polls[p] = 0
              /\ gets[p] = 0
              /\ status[p] = NoResponse
              /\ OwnsNothing(p))
    /\ [][\A p \in Procs :
            /\ (apc[p] = "start" /\ apc'[p] # "start"
                  /\ ~model_file_exists(target[p]) /\ ~auto_download[p]) =>
                 /\ outcome'[p] = "err_no_download"
                 /\ apc'[p] = "ended"
            /\ (outcome'[p] = "err_no_download" /\ outcome[p] # outcome'[p]) =>
                 /\ apc[p] = "start"
                 /\ ~model_file_exists(target[p])
                 /\ fs' = fs
                 /\ gets' = gets]_vars

\* a process with downloading disabled has failed while another one, with
\* downloading enabled, is fetching the same target
C22_Witness ==
    \E p, q \in Procs :
      /\ outcome[p] = "err_no_download"
      /\ apc[p] = "ended"
      /\ gets[p] = 0
      /\ apc[q] = "copy"
      /\ fs[lock_path_for(target[p])] = LockFile(q)
      /\ ~model_file_exists(target[p])


\* the first construction asked for an acceleration and failed
AcceleratedFailed ==
    /\ attempts # <<>>
    /\ cfg.acceleration_kind # "none"
    /\ attempts[1].error # <<>>

\* C23: when the acceleration was not pinned and the construction with it
\* fails, a second construction is run without acceleration and from an
\* empty pool: a pool it returns has whisper_parallelism contexts, none of
\* them loaded with acceleration, and an error it returns names the cause of
\* the first failure followed by the cause of the second.
C23_FallbackToCpu ==
    /\ Len(attempts) <= 2
    /\ (AcceleratedFailed /\ ~cfg.acceleration_explicit) => Len(attempts) = 2
    /\ Len(attempts) = 2 =>
         /\ AcceleratedFailed
         /\ ~cfg.acceleration_explicit
         /\ attempts[1].acceleration = cfg.acceleration_kind
         /\ attempts[1].error[1].acceleration = cfg.acceleration_kind
         /\ attempts[2].acceleration = "none"
         /\ bpc \in {"loading", "built", "failed"}
         /\ Len(contexts) <= cfg.whisper_parallelism
         /\ \A h \in 1..Len(contexts) : ~contexts[h].use_gpu
         /\ bpc = "built" =>
              /\ build_result.ok
              /\ build_result.effective_acceleration = "none"
              /\ Len(contexts) = cfg.whisper_parallelism
         /\ bpc = "failed" =>
              /\ ~build_result.ok
              /\ attempts[2].error # <<>>
              /\ attempts[2].error[1].acceleration = "none"
              /\ build_result.causes = attempts[1].error \o attempts[2].error

\* metal was the default and failed at the second of two workers; the pool
\* built afterwards holds two contexts loaded without acceleration
C23_Witness ==
    /\ bpc = "built"
    /\ cfg.acceleration_kind = "metal"
    /\ ~cfg.acceleration_explicit
    /\ cfg.whisper_parallelism = 2
    /\ Len(attempts) = 2
    /\ attempts[1].error = <<LoadError(1, "metal")>>
    /\ contexts = <<[use_gpu |-> FALSE], [use_gpu |-> FALSE]>>


\* C24: when the acceleration was pinned and the construction with it fails,
\* WhisperRsBackend::new returns the error of that construction: build_contexts
\* is called once, never without acceleration, and no pool exists.
C24_ExplicitIsFatal ==
    /\ (cfg.acceleration_explicit /\ cfg.acceleration_kind # "none") =>
         \A i \in 1..Len(attempts) :
           attempts[i].acceleration = cfg.acceleration_kind
    /\ (AcceleratedFailed /\ cfg.acceleration_explicit) =>
         /\ bpc = "failed"
         /\ Len(attempts) = 1
         /\ contexts = <<>>
         /\ ~build_result.ok
         /\ build_result.causes = attempts[1].error
         /\ picks = <<>>

\* cuda was pinned and the load of the second of three workers failed
C24_Witness ==
    /\ bpc = "failed"
    /\ cfg.acceleration_kind = "cuda"
    /\ cfg.acceleration_explicit
    /\ cfg.whisper_parallelism = 3
    /\ attempts = <<[acceleration |-> "cuda", error |-> <<LoadError(1, "cuda")>>]>>
    /\ build_result.causes = <<LoadError(1, "cuda")>>


\* C25: every configuration that start-up accepts has a pool size between 1
\* and MAX_WHISPER_PARALLELISM; a backend exists only after that many loads
\* succeeded and then holds that many contexts, for good; a construction
\* that failed leaves no context and names the worker whose load failed; a
\* context is picked only from a backend that exists, with an index inside
\* the pool.
C25_PoolAllOrNothing ==
    /\ [](/\ bpc \in {"start", "loading", "built", "failed"} =>
               cfg.whisper_parallelism \in 1..MAX_WHISPER_PARALLELISM
          /\ build_result.ok <=> bpc = "built"
          /\ bpc = "built" =>
               /\ Len(contexts) = cfg.whisper_parallelism
               /\ Len(contexts) >= 1
               /\ Len(contexts) <= MAX_WHISPER_PARALLELISM
               /\ \A h \in 1..Len(contexts) :
                    contexts[h].use_gpu =
                      (build_result.effective_acceleration # "none")
          /\ bpc = "loading" => Len(contexts) <= cfg.whisper_parallelism
          /\ bpc = "failed" =>
               /\ contexts = <<>>
               /\ build_result.causes # <<>>
               /\ \A i \in 1..Len(build_result.causes) :
                    build_result.causes[i].worker \in 1..cfg.whisper_parallelism
          /\ picks # <<>> => bpc = "built"
          /\ \A k \in 1..Len(picks) : picks[k] \in 0..(Len(contexts) - 1))
    /\ [][bpc = "built" => (bpc' = "built" /\ contexts' = contexts)]_vars

\* a pool of the largest size is built and three requests have picked the
\* first three of its contexts
C25_Witness ==
    /\ bpc = "built"
    /\ Len(contexts) = MAX_WHISPER_PARALLELISM
    /\ Len(picks) >= 3
    /\ picks[3] = 2


\* the positions of a request inside handle_audio_request, before transcribe
InHandler == {"received", "authed", "parsed", "validated"}

\* the request carries the key of the server (if it has one), an accepted
\* model, a response_format that parses and no temperature or one in [0, 1]
PassesChecks(r) ==
    /\ cfg.api_key # <<>> =>
         /\ form[r].authorization # <<>>
         /\ Len(form[r].authorization[1]) = 2
         /\ form[r].authorization[1][1] \in BearerSchemes
         /\ form[r].authorization[1][2] = cfg.api_key[1]
    /\ form[r].model \in {"whisper-1", cfg.api_model_alias}
    /\ form[r].response_format \in ResponseFormats
    /\ \/ form[r].temperature = ""
       \/ /\ parse_f32(form[r].temperature).kind = "finite"
          /\ parse_f32(form[r].temperature).tenths \in 0..10

\* C26: transcribe is called only for a request that passed require_auth,
\* whose model is accepted, whose response_format parsed and whose
\* temperature, if any, is finite and in [0, 1]. A request that fails one of
\* these checks gets no further than the check: the handler answers with a
\* client error (401 for the key, else 400, or 415 when its file is refused
\* as well), no context is picked and no decode pass runs for it.
C26_ValidatedBeforeTranscribe ==
    \A r \in Reqs :
      /\ pc[r] \notin (InHandler \cup {"absent", "rejected"}) =>
           /\ PassesChecks(r)
           /\ response[r] = "none"
      /\ (ctx[r] # -1 \/ log[r] # <<>> \/ result[r] # NoResult) =>
           PassesChecks(r)
      /\ ~PassesChecks(r) =>
           /\ pc[r] \in {"absent", "received", "authed", "parsed", "rejected"}
           /\ ctx[r] = -1
           /\ log[r] = <<>>
           /\ \A k \in 1..Len(arrivals) : arrivals[k] # r
      /\ pc[r] = "rejected" =>
           /\ response[r] \in {"400", "401", "415"}
           /\ ~require_auth(cfg, form[r].authorization) => response[r] = "401"
           /\ ctx[r] = -1
           /\ log[r] = <<>>
      /\ pc[r] \in InHandler => ENABLED HandleAudioRequest(r)

\* on a server with an API key, a request with the key, the alias as model
\* and the temperature 0.5 has been transcribed
C26_Witness ==
    /\ cfg.api_key = <<"k">>
    /\ form[1].authorization = << <<"bearer", "k">> >>
    /\ form[1].model = DefaultAlias
    /\ form[1].temperature = "0.5"
    /\ form[1].response_format = "vtt"
    /\ pc[1] = "done"
    /\ picks = <<0>>
    /\ log[1] # <<>>


\* the transcript segments of an engine output: those with non-blank text
TranscriptSegments(raw) ==
    SelectSeq(raw, LAMBDA seg : seg.kind = "text" /\ Trim(seg.text) # <<>>)

\* C27: pass 2 runs if and only if no language was supplied and pass 1
\* produced no transcript segment: never with a language supplied, and
\* always when, without one, pass 1 returned no segment or blank ones only.
C27_Pass2Trigger ==
    \A r \in Reqs :
      /\ HasPass(r, 2) =>
           /\ req[r].language = <<>>
           /\ TranscriptSegments(log[r][1].raw) = <<>>
      /\ (/\ Len(log[r]) >= 1
          /\ ~Failed(log[r][1])
          /\ req[r].language = <<>>
          /\ TranscriptSegments(log[r][1].raw) = <<>>)
         => (pc[r] = "pass2" \/ HasPass(r, 2))


\* pass 1 succeeded and pass 2 is not run
PrimaryOnly(r) ==
    /\ Len(log[r]) >= 1
    /\ ~Failed(log[r][1])
    /\ pc[r] # "pass2"
    /\ ~HasPass(r, 2)

\* C28 as stated: without the empty fallback the run goes from pass 1 to
\* the finalization with no further pass, and pass 3 runs only in a run
\* that went through pass 2.
C28_FinalizeAfterPrimary ==
    \A r \in Reqs :
      /\ PrimaryOnly(r) => (pc[r] \in {"finalize", "done"} /\ Len(log[r]) = 1)
      /\ (pc[r] = "pass3" \/ HasPass(r, 3)) => HasPass(r, 2)

\* C28, amended: the non-speech check is made on every run that met no
\* error, whether pass 2 ran or not. Without pass 2 it is made on the
\* segments of pass 1: pass 3 follows when they are markers only, and the
\* finalization follows with no further pass otherwise. After pass 2 it is
\* made on the segments then held.
C28_NonSpeechCheckAlways ==
    \A r \in Reqs :
      /\ PrimaryOnly(r) =>
           /\ AllMarkers(TranscriptSegments(log[r][1].raw)) =>
                /\ pc[r] = "pass3" \/ HasPass(r, 3)
                /\ Len(log[r]) = 1 <=> pc[r] = "pass3"
           /\ ~AllMarkers(TranscriptSegments(log[r][1].raw)) =>
                /\ pc[r] \in {"finalize", "done"}
                /\ Len(log[r]) = 1
      /\ (/\ Len(log[r]) = 2
          /\ PassOf(r, 2) = 2
          /\ ~Failed(log[r][2])) =>
           /\ AllMarkers(segments[r]) => pc[r] = "pass3"
           /\ ~AllMarkers(segments[r]) => pc[r] \in {"finalize", "done"}

\* with the language pinned, pass 1 returned one marker and pass 3 ran
\* right after it
C28_Witness ==
    /\ pc[1] = "done"
    /\ req[1].language # <<>>
    /\ Len(log[1]) = 2
    /\ PassOf(1, 2) = 3
    /\ log[1][1].raw = <<RawText(TextEvent)>>
    /\ log[1][2].held = <<[text |-> TextEvent]>>


C30_StaleLockClears ==
    \A p, q \in Procs :
      (/\ apc[q] = "killed"
       /\ apc[p] = "acquire"
       /\ target[p] = target[q])
      ~> (/\ apc[p] = "ended"
          /\ outcome[p] # "err_lock_timeout")


\* the positions of ensure_model_ready at which the lock is held
UnderLock ==
    {"recheck", "download", "create_tmp", "copy", "remove_tmp", "rename",
     "release"}

\* C31: the lock file of a process killed while holding it stays as it is,
\* for good: no other process removes it, takes it over or gets past it. A
\* process waiting for that lock can only sleep and, once the timeout has
\* elapsed, return the timeout error; none creates a lock of its own, sends
\* a request or writes a file.
C31_StaleLockStays ==
    \A q \in Procs :
      apc[q] = "killed" =>
        /\ fs[lock_path_for(target[q])] = LockFile(q)
        /\ \A p \in Procs \ {q} :
             /\ target[p] = target[q] =>
                  /\ apc[p] \notin UnderLock
                  /\ apc[p] # "killed"
             /\ apc[p] = "acquire" =>
                  /\ polls[p] <= MaxPolls
                  /\ ~ENABLED LockCreated(p)
                  /\ polls[p] < MaxPolls =>
                       (ENABLED LockBusy(p) /\ ~ENABLED LockTimedOut(p))
                  /\ polls[p] = MaxPolls =>
                       (ENABLED LockTimedOut(p) /\ ~ENABLED LockBusy(p))
             /\ outcome[p] = "err_lock_timeout" =>
                  /\ apc[p] = "ended"
                  /\ polls[p] = MaxPolls
                  /\ gets[p] = 0

\* the holder was killed while copying; the other process has waited, timed
\* out and ended, and the lock file of the dead holder is still there
C31_Witness ==
    \E p, q \in Procs :
      /\ apc[q] = "killed"
      /\ fs[tmp_path_for(target[q])].kind = "data"
      /\ fs[tmp_path_for(target[q])].by = q
      /\ fs[lock_path_for(target[q])] = LockFile(q)
      /\ apc[p] = "ended"
      /\ outcome[p] = "err_lock_timeout"

\* C32: the index is picked on the request task and the work is then handed
\* to a blocking worker: the step of the request task changes the counter and
\* the pick only, the Mutex is taken and every pass is run from a position of
\* the worker, a request is dispatched once and never again, and its result
\* (Ok or Err) appears in the step with which the worker returns, the guard
\* dropped.
C32_DispatchedOnce ==
    [][\A r \in Reqs :
         /\ (pc[r] \in OnTask /\ pc'[r] # pc[r]) =>
               /\ pc'[r] = "dispatched"
               /\ Len(picks') = Len(picks) + 1
               /\ ctx'[r] = picks'[Len(picks')]
               /\ holder' = holder
               /\ log' = log
               /\ result' = result
         /\ \A h \in Contexts :
               (holder'[h] = r /\ holder[h] # r) =>
                 (pc[r] \in OnWorker /\ h = ctx[r])
         /\ log'[r] # log[r] => pc[r] \in OnWorker
         /\ pc[r] \in OnWorker => pc'[r] \in OnWorker \cup {"done", "failed"}
         /\ (pc'[r] = "dispatched" /\ pc[r] # "dispatched") => pc[r] \in OnTask
         /\ pc[r] \in {"done", "failed"} =>
               (pc'[r] = pc[r] /\ result'[r] = result[r])
         /\ result'[r] # result[r] =>
               /\ pc[r] \in OnWorker
               /\ pc'[r] = "done"
               /\ holder[ctx[r]] = r
               /\ holder'[ctx[r]] = 0
         /\ (pc'[r] = "failed" /\ pc[r] # "failed") =>
               /\ pc[r] \in OnWorker
               /\ holder[ctx[r]] = r
               /\ holder'[ctx[r]] = 0
      ]_vars

\* one request has its result back from a worker that ran more than one pass
\* while the worker of another is blocked on the Mutex of a context that a
\* third holds in a pass
C32_Witness ==
    \E r, w, b \in Reqs :
      /\ pc[r] = "done"
      /\ result[r].ok
      /\ Len(log[r]) >= 2
      /\ pc[w] = "dispatched"
      /\ holder[ctx[w]] = b
      /\ b # w
      /\ pc[b] \in {"pass1", "pass2", "pass3"}

\* C33: every pass of a request is given the samples of the request, and the
\* parameters of a later pass are those of pass 1 but for the language in
\* pass 2 (pinned to "en", no detection) and but for the no-speech threshold
\* and the blank suppression in pass 3, whose language policy is that of
\* pass 1 also after a pass 2: prompt, temperature and task direction are the
\* same in every pass.
C33_FallbackKeepsRequest ==
    \A r \in Reqs :
      \A i \in 1..Len(log[r]) :
        LET e == log[r][i]
            first == log[r][1].params
        IN  /\ e.audio = req[r].audio_16khz_mono_f32
            /\ e.params.initial_prompt = InitialPrompt(req[r])
            /\ e.params.temperature = req[r].temperature
            /\ e.params.translate = (req[r].task = "translate")
            /\ e.pass = 1 => i = 1
            /\ e.pass = 2 =>
                  e.params = [first EXCEPT !.language = << <<"e", "n">> >>,
                                           !.detect_language = FALSE]
            /\ e.pass = 3 =>
                  e.params = [first EXCEPT !.no_speech_thold_max = TRUE,
                                           !.suppress_blank = FALSE]

\* a translation with a prompt and a temperature went through the three
\* passes: pass 2 ran pinned to English and pass 3 detected the language anew
C33_Witness ==
    /\ Len(log[1]) = 3
    /\ req[1].task = "translate"
    /\ req[1].prompt = << <<"h", "i", " ">> >>
    /\ req[1].temperature = <<5>>
    /\ req[1].audio_16khz_mono_f32 = "clip_b"
    /\ log[1][2].pass = 2
    /\ log[1][2].params.language = << <<"e", "n">> >>
    /\ log[1][3].pass = 3
    /\ log[1][3].params.detect_language
    /\ log[1][3].params.initial_prompt = << <<"h", "i">> >>
    /\ log[1][3].params.temperature = <<5>>
    /\ log[1][3].params.translate

\* C34: for every pool size in 1..MAX_WHISPER_PARALLELISM every index handed
\* out is one of the pool, and the index handed out after index i is
\* (i + 1) mod the pool size, also when the counter wrapped between the two.
\* Violated: the counter wraps at the word size, which is no multiple of a
\* pool size of 3, 5, 6 or 7.
C34_RoundRobinAcrossWrap ==
    \A k \in 1..Len(picks) :
      /\ picks[k] \in 0..(Len(contexts) - 1)
      /\ k > 1 => picks[k] = (picks[k - 1] + 1) % Len(contexts)

\* file names acquisitions on one model directory may have as their target
\* (WHISPER_HF_FILENAME of each instance)
ModelFiles == Targets \cup {<<"m", "gguf">>}

\* the positions of download_model_to_path in which the temporary file is
\* created, written, removed or renamed
UsesTmp == {"create_tmp", "copy", "remove_tmp", "rename"}

\* C35: while an acquisition creates, writes, removes or renames its
\* temporary file, the path of that file is not the path of its target, and
\* it is not the temporary path of any other target of the same directory
\* (whose acquisition holds another lock file).
\* Violated: with_extension("part") ignores the extension of the target.
C35_TmpPathOwn ==
    \A p \in Procs :
      apc[p] \in UsesTmp =>
        /\ tmp_path_for(target[p]) # target[p]
        /\ \A other \in ModelFiles \ {target[p]} :
             /\ lock_path_for(other) # lock_path_for(target[p])
             /\ tmp_path_for(other) # tmp_path_for(target[p])
             /\ tmp_path_for(target[p]) # other

\* every pass of the request that detected the language detected the same one
\* (the detection looks at the samples only, which are the same in each pass)
SameDetection(r) ==
    \A i, j \in 1..Len(log[r]) :
      (log[r][i].params.detect_language /\ log[r][j].params.detect_language)
      => log[r][i].lang = log[r][j].lang

\* C36: the language of a result returned for a request without a language
\* is the language of a pass of that request whose segments are the ones
\* returned, also when a later pass ran and its candidate was discarded.
\* Violated: the language is read from the state after the last pass.
C36_LanguageOfReturnedPass ==
    \A r \in Reqs :
      (pc[r] = "done" /\ req[r].language = <<>> /\ SameDetection(r)) =>
        \E i \in 1..Len(log[r]) :
          /\ extract_segments(log[r][i].raw).segments = result[r].segments
          /\ result[r].language = <<log[r][i].lang>>

\* C37: however a request ended (Ok, an error of a pass, a panic of its
\* worker) it no longer holds the Mutex of its context, and a request that
\* was given a context nobody holds can take it and run.
\* Violated: the Mutex a worker panicked under is poisoned for good.
C37_HandleUsableAfterAnyEnd ==
    /\ \A q \in Reqs :
         pc[q] \in {"done", "failed"} => \A h \in DOMAIN holder : holder[h] # q
    /\ \A r \in Reqs :
         (pc[r] = "dispatched" /\ holder[ctx[r]] = 0) => ENABLED LockContext(r)

\* C38: the segments of pass 2 are kept only when none were held, and a
\* result returned after pass 3 ran is not empty and its quality score, the
\* number of characters of its normalized text, is not below that of the
\* segments held before pass 3.
\* Violated: the score compared is the number of bytes (C11).
C38_FallbackNeverWorse ==
    \A r \in Reqs :
      \A i \in 1..Len(log[r]) :
        LET e == log[r][i]
        IN  /\ (e.pass = 2 /\ ~Failed(e) /\ segments[r] # e.held) => e.held = <<>>
            /\ (e.pass = 3 /\ pc[r] = "done") =>
                  /\ result[r].segments # <<>>
                  /\ result[r].text # <<>>
                  /\ CharCount(result[r].segments) >= CharCount(e.held)

\* segs are texts of raw, trimmed, in the order raw has them
InEngineOrder(segs, raw) ==
    \E f \in [1..Len(segs) -> 1..Len(raw)] :
      /\ \A k, l \in 1..Len(segs) : k < l => f[k] < f[l]
      /\ \A k \in 1..Len(segs) :
           /\ raw[f[k]].kind = "text"
           /\ segs[k].text = Trim(raw[f[k]].text)

\* C39: in every result returned, each segment has a text that is not empty
\* and has no whitespace at either end, the segments are segments of one
\* pass in the order in which the engine gave them, and the text of the
\* result is empty exactly when there is no segment.
C39_ResultWellFormed ==
    \A r \in Reqs :
      pc[r] = "done" =>
        /\ \A k \in 1..Len(result[r].segments) :
             LET text == result[r].segments[k].text
             IN  /\ text # <<>>
                 /\ ~IsWhitespace(text[1])
                 /\ ~IsWhitespace(text[Len(text)])
        /\ \E i \in 1..Len(log[r]) :
             /\ ~Failed(log[r][i])
             /\ InEngineOrder(result[r].segments, log[r][i].raw)
        /\ (result[r].text = <<>>) <=> (result[r].segments = <<>>)

\* a result whose one segment is the padded second segment of an engine
\* output that began with a blank one
C39_Witness ==
    /\ pc[1] = "done"
    /\ Len(result[1].segments) = 1
    /\ result[1].segments[1].text = <<"(", "U+00E9", ")">>
    /\ result[1].text # <<>>
    /\ \E i \in 1..Len(log[1]) :
         log[1][i].raw = <<RawText(TextBlank), RawText(TextEventWide)>>

====
